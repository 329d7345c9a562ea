--------------------------- MODULE PgRegistryProofs ---------------------------
(***************************************************************************)
(* Theorems about PgTransactions while one operation runs at a time: which *)
(* savepoint names are reserved, which handle holds the connection that a  *)
(* pool lent, and who ends a transaction that the caller opened.  They     *)
(* rest on the nesting of PgTransactionsProofs.                            *)
(***************************************************************************)
EXTENDS PgTransactionsProofs

-----------------------------------------------------------------------------
(* The frame of a task that sends a command, ends or recovers.             *)

\* A command in flight is described by the frame of its task.
LEMMA AwaitFields ==
  ASSUME frame \in [Task -> Frames], NEW t \in Task, NEW f \in Frames,
         NEW at, NEW do, NEW save, Await(t, f, at, do, save)
  PROVE  /\ frame'[t].at = at /\ frame'[t].save = save /\ frame'[t].reg = f.reg
         /\ frame'[t].pool = f.pool
         /\ \A u \in Task \ {t} : frame'[u] = frame[u]
<1> DEFINE g == [f EXCEPT !.at = at, !.do = do, !.save = save,
              !.reply = IF \E u \in Task \ {t} : frame[u].reply = "waiting"
                        THEN "refused" ELSE "waiting"]
<1>1. g.at = at /\ g.save = save /\ g.reg = f.reg /\ g.pool = f.pool
  BY DEF Frames
<1>2. frame' = [frame EXCEPT ![t] = g]
  BY DEF Await
<1> HIDE DEF g
<1> QED BY <1>1, <1>2

\* So are the command itself and the boundary it is inside.
LEMMA AwaitDo ==
  ASSUME frame \in [Task -> Frames], NEW t \in Task, NEW f \in Frames,
         NEW at, NEW do, NEW save, Await(t, f, at, do, save)
  PROVE  frame'[t].at = at /\ frame'[t].do = do /\ frame'[t].edge = f.edge
<1> DEFINE g == [f EXCEPT !.at = at, !.do = do, !.save = save,
              !.reply = IF \E u \in Task \ {t} : frame[u].reply = "waiting"
                        THEN "refused" ELSE "waiting"]
<1>1. g.at = at /\ g.do = do /\ g.edge = f.edge
  BY DEF Frames
<1>2. frame' = [frame EXCEPT ![t] = g]
  BY DEF Await
<1> HIDE DEF g
<1> QED BY <1>1, <1>2

\* Nested recovery goes back to its boundary.
LEMMA BoundaryDo ==
  ASSUME frame \in [Task -> Frames], NEW t \in Task, NEW f \in Frames,
         NEW edge \in Nat, NEW closed, RecoverBoundary(t, f, edge, closed)
  PROVE  frame'[t].at = "recoverTo" /\ frame'[t].do = "rollback to"
<1> DEFINE g    == [f EXCEPT !.edge = edge]
           at   == "recoverTo"
           do   == "rollback to"
           save == info[edge].save
<1>1. Await(t, g, at, do, save)
  BY DEF RecoverBoundary
<1>2. g \in Frames
  BY DEF Frames
<1>3. frame'[t].at = at /\ frame'[t].do = do
  <2> HIDE DEF g, at, do, save
  <2> QED BY <1>1, <1>2, AwaitDo
<1> QED BY <1>3

\* A task that returns is idle, and the others are where they were.
LEMMA ReturnFields ==
  ASSUME frame \in [Task -> Frames], NEW t \in Task, Return(t)
  PROVE  /\ frame'[t].at = "idle" /\ frame'[t].reply = "none"
         /\ frame'[t].pool = FALSE /\ frame'[t].do = "none"
         /\ \A u \in Task \ {t} : frame'[u] = frame[u]
BY DEF Return, NoFrame

\* _recover_connection leaves everything alone, closes what is inside the
\* boundary, or closes everything.
LEMMA RecoverCases ==
  ASSUME frame \in [Task -> Frames], NEW t \in Task, NEW f \in Frames,
         NEW edge \in Nat, NEW extra, NEW owns, NEW also,
         Recover(t, f, edge, extra, owns, also)
  PROVE  /\ \A u \in Task \ {t} : frame'[u] = frame[u]
         /\ \/ /\ Return(t) /\ UNCHANGED registry
               /\ Snapshot(extra) = {} /\ ~owns
            \/ /\ Nested(edge) /\ Shut(After(edge) \union {edge} \union also, {})
               /\ frame'[t].at = "recoverTo" /\ frame'[t].pool = f.pool
            \/ /\ \E S, C : Shut(S, C)
               /\ frame'[t].at = "recover" /\ frame'[t].pool = f.pool
<1>1. CASE Return(t) /\ UNCHANGED registry /\ Snapshot(extra) = {} /\ ~owns
  BY <1>1, ReturnFields
<1>2. CASE /\ Nested(edge)
           /\ RecoverBoundary(t, f, edge, After(edge) \union {edge} \union also)
  <2> DEFINE g == [f EXCEPT !.edge = edge]
             save == info[edge].save
  <2>1. Await(t, g, "recoverTo", "rollback to", save)
    BY <1>2 DEF RecoverBoundary
  <2>2. g \in Frames /\ g.pool = f.pool
    BY DEF Frames
  <2> HIDE DEF g, save
  <2>3. /\ frame'[t].at = "recoverTo" /\ frame'[t].pool = f.pool
        /\ \A u \in Task \ {t} : frame'[u] = frame[u]
    <3> DEFINE at == "recoverTo"
               do == "rollback to"
    <3>1. Await(t, g, at, do, save)
      BY <2>1
    <3> HIDE DEF at, do
    <3>2. /\ frame'[t].at = at /\ frame'[t].pool = g.pool
          /\ \A u \in Task \ {t} : frame'[u] = frame[u]
      BY <2>2, <3>1, AwaitFields
    <3> QED BY <2>2, <3>2 DEF at
  <2> QED BY <1>2, <2>3 DEF RecoverBoundary
<1>3. CASE RecoverAll(t, f, Snapshot(extra), also)
  <2>1. (\E S, C : Shut(S, C)) /\ Await(t, f, "recover", "rollback", NoSave)
    BY <1>3 DEF RecoverAll
  <2> QED BY <2>1, AwaitFields
<1> QED BY <1>1, <1>2, <1>3 DEF Recover

-----------------------------------------------------------------------------
(* Savepoint names.                                                        *)

\* savepoint() reserves its name before the server has answered.
Waiting   == {u \in Task : frame[u].at = "savepoint"}
Reserving == {<<frame[u].reg, frame[u].save>> : u \in Waiting}
Taken     == {p \in NamesOf(open) : p[2] # NoSave}

NamesInv ==
  /\ names = Taken \union Reserving
  /\ \A g, h \in open : info[g].save = info[h].save /\ info[g].save # NoSave => g = h
  /\ \A u \in Waiting :
       frame[u].save # NoSave /\ \A h \in open : info[h].save # frame[u].save

\* Nothing is constructed or closed, and no savepoint() starts or ends.
LEMMA NamesStay ==
  ASSUME NamesInv, UNCHANGED <<info, open, names>>,
         Waiting' = {}, Waiting = {}
  PROVE  NamesInv'
BY DEF NamesInv, Reserving, Taken, NamesOf

\* Handles that close take their names with them, and no other handle's.
LEMMA NamesShut ==
  ASSUME WellNested, NamesInv, NEW S, NEW C, Shut(S, C), C = {} \/ open' = {},
         Waiting = {}, Waiting' = {}
  PROVE  NamesInv'
<1>1. /\ open' = open \ Fall(S) /\ info' = info /\ Fall(S) \subseteq open
      /\ names' = {p \in names \ NamesOf(Fall(S)) : p[1] \notin C}
  BY DEF Shut, Fall
<1>2. names = Taken /\ Reserving' = {}
  BY DEF NamesInv, Reserving
<1>3. ASSUME NEW p \in names' PROVE p \in Taken'
  <2>1. p \in NamesOf(open) /\ p[2] # NoSave /\ p \notin NamesOf(Fall(S))
    BY <1>1, <1>2, <1>3 DEF Taken
  <2>2. PICK e \in open : p = <<info[e].reg, info[e].save>>
    BY <2>1 DEF NamesOf
  <2>3. e \in open'
    BY <1>1, <2>1, <2>2 DEF NamesOf
  <2> QED BY <1>1, <2>1, <2>2, <2>3 DEF Taken, NamesOf
<1>4. ASSUME NEW p \in Taken' PROVE p \in names'
  <2>1. PICK e \in open' : p = <<info[e].reg, info[e].save>>
    BY <1>1 DEF Taken, NamesOf
  <2>2. e \in open /\ e \notin Fall(S) /\ info[e].save # NoSave
    BY <1>1, <1>4, <2>1 DEF Taken
  <2>3. p \in names
    BY <1>2, <2>1, <2>2 DEF Taken, NamesOf
  <2>4. ASSUME p \in NamesOf(Fall(S)) PROVE FALSE
    <3>1. PICK d \in Fall(S) : p = <<info[d].reg, info[d].save>>
      BY <2>4 DEF NamesOf
    <3>2. d = e
      BY <1>1, <2>1, <2>2, <3>1 DEF NamesInv
    <3> QED BY <2>2, <3>1, <3>2
  <2>5. C = {}
    BY <2>1
  <2> QED BY <1>1, <2>3, <2>4, <2>5
<1> QED BY <1>1, <1>2, <1>3, <1>4 DEF NamesInv

\* What a task does to the registry when it is not in savepoint().
Effect(t) ==
  \/ UNCHANGED <<info, open, names>>
  \/ \E S : Shut(S, {})
  \/ (\E S, C : Shut(S, C)) /\ frame'[t].at = "recover"

\* Closing handles keeps the registry's names exact, and so does leaving it
\* alone.
LEMMA NamesEffect ==
  ASSUME NestInv, NamesInv, NestStep, NEW t \in Task,
         \A u \in Task \ {t} : frame[u].at = "idle" /\ frame'[u] = frame[u],
         frame[t].at # "savepoint", frame'[t].at # "savepoint", Effect(t)
  PROVE  NamesInv'
<1>1. Waiting = {} /\ Waiting' = {}
  BY DEF Waiting
<1>2. WellNested
  BY DEF NestInv
<1>3. frame'[t].at = "recover" => open' = {}
  BY DEF NestStep, FrameInv
<1> QED BY <1>1, <1>2, <1>3, NamesStay, NamesShut DEF Effect

\* Recovery takes exactly the names of the handles it closes.
LEMMA RecoverEffect ==
  ASSUME NestInv, NEW t \in Task, NEW f \in Frames, NEW edge \in Nat, NEW extra,
         NEW owns, NEW also, Recover(t, f, edge, extra, owns, also)
  PROVE  /\ Effect(t) /\ frame'[t].at # "savepoint"
         /\ \A u \in Task \ {t} : frame'[u] = frame[u]
<1>1. frame \in [Task -> Frames]
  BY OpenType DEF NestInv
<1> HIDE DEF NestInv
<1>2. Return(t) => frame'[t].at = "idle"
  BY <1>1, ReturnFields
<1> QED BY <1>1, <1>2, RecoverCases DEF Effect, registry

\* The starts of operations other than savepoint().
LEMMA NamesStarts ==
  ASSUME Serial, NestInv, NamesInv, NestStep, NEW t \in Task, Starts(t)
  PROVE  NamesInv'
<1>1. /\ \A u \in Task : frame[u].at = "idle"
      /\ frame \in [Task -> Frames] /\ RegistryOK
  <2>1. Ready(t)
    BY DEF Starts, Begin, Commit, Rollback, Finish, Savepoint, SpRelease,
           SpRollback, SpCall, Query
  <2> QED BY <2>1, OpenType, TypeParts DEF Ready, Quiet, NestInv
<1>2. ASSUME NEW f \in Frames, NEW at, NEW do, NEW save, Await(t, f, at, do, save),
             at # "savepoint", Effect(t)
      PROVE  NamesInv'
  BY <1>1, <1>2, AwaitFields, NamesEffect
<1>3. ASSUME NEW h \in open \union {None}, Begin(t, h)
      PROVE  NamesInv'
  <2> DEFINE inside   == session.txn # "none"
             fromPool == Pool /\ h = None /\ ~leased
             reg      == IF h # None THEN info[h].reg
                         ELSE IF current # None /\ ~fromPool THEN current
                         ELSE regs + 1
             edge     == IF inside /\ Stack(reg) # {} THEN Top(reg) ELSE None
             save     == IF inside THEN minted + 1 ELSE NoSave
             f        == [NoFrame EXCEPT !.h = h, !.reg = reg,
                                         !.pool = fromPool, !.edge = edge]
             do       == IF inside THEN "savepoint" ELSE "begin"
  <2>1. Await(t, f, "start", do, save) /\ UNCHANGED <<info, open, names>>
    BY <1>3 DEF Begin
  <2> HIDE DEF f, do, save
  <2>2. frame'[t].at = "start" /\ \A u \in Task \ {t} : frame'[u] = frame[u]
    BY <1>1, <2>1 DEF Await, f, NoFrame
  <2> QED BY <1>1, <2>1, <2>2, NamesEffect DEF Effect
<1>4. ASSUME NEW h \in open
      PROVE  /\ [NoFrame EXCEPT !.h = h, !.reg = info[h].reg, !.edge = h] \in Frames
             /\ [NoFrame EXCEPT !.h = h, !.reg = info[h].reg] \in Frames
             /\ [NoFrame EXCEPT !.h = h, !.reg = info[h].reg,
                                !.edge = info[h].owner] \in Frames
  <2>1. h \in Nat /\ info[h].reg \in Nat /\ info[h].owner \in Nat
    BY <1>1, InfoType DEF RegistryOK
  <2> QED BY <2>1, NoFrameType DEF Frames
<1>5. ASSUME NEW h \in open, Commit(t, h) \/ Rollback(t, h)
      PROVE  NamesInv'
  <2> DEFINE f == [NoFrame EXCEPT !.h = h, !.reg = info[h].reg, !.edge = h]
  <2>1. PICK at \in {"commit", "rollback"}, do \in Verbs : Finish(t, h, at, do)
    BY <1>5 DEF Commit, Rollback, Verbs
  <2>2. Shut(After(h), {}) /\ Await(t, f, at, do, info[h].save) /\ f \in Frames
    BY <1>4, <2>1 DEF Finish
  <2>3. Effect(t) /\ at # "savepoint"
    BY <2>1, <2>2 DEF Effect
  <2> HIDE DEF f
  <2> QED BY <1>2, <2>2, <2>3
<1>6. ASSUME NEW h \in open, SpRelease(t, h) \/ SpRollback(t, h)
      PROVE  NamesInv'
  <2> DEFINE f == [NoFrame EXCEPT !.h = h, !.reg = info[h].reg,
                                  !.edge = info[h].owner]
  <2>1. PICK at \in {"spRelease", "spRollback"}, do \in Verbs : SpCall(t, h, at, do)
    BY <1>6 DEF SpRelease, SpRollback, Verbs
  <2>2. Await(t, f, at, do, info[h].save) /\ f \in Frames /\ UNCHANGED registry
    BY <1>4, <2>1 DEF SpCall
  <2>3. Effect(t) /\ at # "savepoint"
    BY <2>1, <2>2 DEF Effect, registry
  <2> HIDE DEF f
  <2> QED BY <1>2, <2>2, <2>3
<1>7. ASSUME NEW h \in open, Query(t, h)
      PROVE  NamesInv'
  <2> DEFINE f == [NoFrame EXCEPT !.h = h, !.reg = info[h].reg]
  <2>1. Await(t, f, "query", "query", NoSave) /\ f \in Frames /\ UNCHANGED registry
    BY <1>4, <1>7 DEF Query
  <2>2. Effect(t)
    BY <2>1 DEF Effect, registry
  <2> HIDE DEF f
  <2> QED BY <1>2, <2>1, <2>2
<1>8. ASSUME NEW h \in open, NEW n \in Name, Savepoint(t, h, n)
      PROVE  NamesInv'
  <2> DEFINE f == [NoFrame EXCEPT !.h = h, !.reg = info[h].reg]
             p == <<info[h].reg, n>>
  <2>1. /\ Await(t, f, "savepoint", "savepoint", n) /\ f \in Frames
        /\ p \notin names /\ names' = names \union {p} /\ UNCHANGED <<info, open>>
    BY <1>4, <1>8 DEF Savepoint, Reserved
  <2>9. f.reg = info[h].reg
    BY DEF NoFrame
  <2> HIDE DEF f
  <2>2. /\ frame'[t].at = "savepoint" /\ frame'[t].save = n
        /\ frame'[t].reg = info[h].reg
        /\ \A u \in Task \ {t} : frame'[u] = frame[u]
    BY <1>1, <2>1, <2>9, AwaitFields
  <2>3. Waiting = {} /\ Waiting' = {t}
    BY <1>1, <2>2 DEF Waiting
  <2>4. Reserving = {} /\ Reserving' = {p}
    BY <2>2, <2>3 DEF Reserving
  <2>5. n # NoSave
    BY ConstantsAssumption DEF ConstantsAssumption, NoSave
  <2>6. ASSUME NEW g \in open, info[g].save = n PROVE FALSE
    <3>1. info[g].reg = info[h].reg
      BY DEF NestInv, WellNested
    <3>2. p \in Taken
      BY <2>5, <2>6, <3>1 DEF Taken, NamesOf
    <3> QED BY <2>1, <3>2 DEF NamesInv
  <2>7. Taken' = Taken
    BY <2>1 DEF Taken, NamesOf
  <2> HIDE DEF p
  <2> QED BY <2>1, <2>2, <2>3, <2>4, <2>5, <2>6, <2>7 DEF NamesInv
<1> QED BY <1>3, <1>5, <1>6, <1>7, <1>8 DEF Starts

\* A new handle takes the name that was reserved for it, or one that is free.
LEMMA NamesConstruct ==
  ASSUME NestInv, NamesInv, NEW kind \in Kinds, NEW owner \in Nat, owner <= made,
         NEW save \in Saves, NEW reg \in Nat, Construct(kind, owner, save, reg),
         Waiting' = {}, save # NoSave => \A h \in open : info[h].save # save,
         names' = Taken \union (IF save = NoSave THEN {} ELSE {<<reg, save>>})
  PROVE  NamesInv'
<1> DEFINE m == made + 1
<1>1. /\ made \in Nat /\ open \subseteq 1 .. made /\ open' = open \union {m}
      /\ DOMAIN info = 1 .. made /\ info \in Seq(Records)
  BY TypeParts, OpenType DEF Construct, RegistryOK, NestInv
<1>2. (\A h \in open : info'[h] = info[h]) /\ info'[m].save = save /\ info'[m].reg = reg
  <2> DEFINE r == [kind |-> kind, owner |-> owner, save |-> save, reg |-> reg]
  <2>1. info' = Append(info, r) /\ r \in Records /\ made = Len(info)
    BY DEF Construct, Records, made
  <2>2. r.save = save /\ r.reg = reg
    OBVIOUS
  <2> HIDE DEF r
  <2> QED BY <1>1, <2>1, <2>2
<1>3. m \notin open
  BY <1>1
<1> HIDE DEF m
<1>4. NamesOf(open)' = NamesOf(open) \union {<<reg, save>>}
  BY <1>1, <1>2 DEF NamesOf
<1>5. Taken' = Taken \union (IF save = NoSave THEN {} ELSE {<<reg, save>>})
  BY <1>4 DEF Taken
<1>6. Reserving' = {}
  BY DEF Reserving
<1>7. ASSUME NEW g \in open', NEW h \in open',
             info'[g].save = info'[h].save, info'[g].save # NoSave
      PROVE  g = h
  BY <1>1, <1>2, <1>3, <1>7 DEF NamesInv
<1> QED BY <1>5, <1>6, <1>7 DEF NamesInv

\* Continuing and ending savepoint().
LEMMA NamesSavepoint ==
  ASSUME NestInv, NamesInv, NestStep, NEW t \in Task,
         SavepointOk(t) \/ SavepointInterrupted(t) \/ SavepointFailed(t)
  PROVE  NamesInv'
<1> DEFINE p == <<frame[t].reg, frame[t].save>>
<1>1. /\ \A u \in Task \ {t} : frame[u].at = "idle"
      /\ frame[t] \in Frames /\ FrameInv(t) /\ frame \in [Task -> Frames]
      /\ frame[t].at = "savepoint"
  BY Resumed, OpenType
     DEF SavepointOk, SavepointInterrupted, SavepointFailed, Resumes, NestInv
<1>2. Waiting = {t} /\ Reserving = {p}
  BY <1>1 DEF Waiting, Reserving
<1>3. /\ names = Taken \union {p} /\ frame[t].save # NoSave
      /\ \A h \in open : info[h].save # frame[t].save
  BY <1>2 DEF NamesInv
<1>4. CASE SavepointOk(t)
  <2>1. /\ Construct("sp", frame[t].h, frame[t].save, frame[t].reg)
        /\ Return(t) /\ names' = names
    BY <1>4 DEF SavepointOk
  <2>2. Waiting' = {}
    BY <1>1, <2>1, ReturnFields DEF Waiting
  <2>3. /\ "sp" \in Kinds /\ frame[t].h \in Nat /\ frame[t].h <= made
        /\ frame[t].save \in Saves /\ frame[t].reg \in Nat
    BY <1>1, OpenType DEF Kinds, Frames, FrameInv, NestInv
  <2> QED BY <1>3, <2>1, <2>2, <2>3, NamesConstruct
<1>5. CASE SavepointInterrupted(t) \/ SavepointFailed(t)
  <2>1. UNCHANGED <<info, open>> /\ names' = names \ {p}
    BY <1>5 DEF SavepointInterrupted, SavepointFailed
  <2>2. Waiting' = {}
    <3>1. CASE Return(t)
      BY <1>1, <3>1, ReturnFields DEF Waiting
    <3>2. CASE Await(t, frame[t], "drop", "release", frame[t].save)
      <4>1. frame'[t].at = "drop" /\ \A u \in Task \ {t} : frame'[u] = frame[u]
        BY <1>1, <3>2, AwaitFields
      <4> QED BY <1>1, <4>1 DEF Waiting
    <3> QED BY <1>5, <3>1, <3>2 DEF SavepointInterrupted, SavepointFailed
  <2>3. p \notin Taken
    BY <1>3 DEF Taken, NamesOf
  <2>4. Taken' = Taken /\ Reserving' = {}
    BY <2>1, <2>2 DEF Taken, NamesOf, Reserving
  <2> HIDE DEF p
  <2> QED BY <1>3, <2>1, <2>2, <2>3, <2>4 DEF NamesInv
<1> QED BY <1>4, <1>5

\* The other continuations close handles or leave the registry alone.
LEMMA NamesContinues ==
  ASSUME NestInv, NamesInv, NestStep, NEW t \in Task, Continues(t)
  PROVE  NamesInv'
<1> DEFINE f == frame[t]
<1>1. CASE SavepointOk(t) \/ SavepointInterrupted(t) \/ SavepointFailed(t)
  BY <1>1, NamesSavepoint
<1>2. CASE ~(SavepointOk(t) \/ SavepointInterrupted(t) \/ SavepointFailed(t))
  <2>1. f.at # "idle" /\ f.at # "savepoint"
    BY <1>2 DEF Continues, RecoverTo, RecoverToEnds, RecoverEnds, BeginOk,
       BeginInterrupted, BeginFailed, Undone, UndoEnds, Rolled, FinishOk,
       FinishFailed, Dropped, SpReleaseOk, SpRollbackOk, SpFailed, QueryEnds, Resumes
  <2>2. /\ \A u \in Task \ {t} : frame[u].at = "idle"
        /\ f \in Frames /\ FrameInv(t) /\ frame \in [Task -> Frames]
        /\ f.edge \in Nat /\ f.h \in Nat
    BY <2>1, Resumed, OpenType DEF Frames, NestInv
  <2>3. ASSUME NEW edge \in Nat, NEW extra, NEW owns, NEW also,
               Recover(t, f, edge, extra, owns, also)
        PROVE  NamesInv'
    <3> HIDE DEF f
    <3>1. /\ Effect(t) /\ frame'[t].at # "savepoint"
          /\ \A u \in Task \ {t} : frame'[u] = frame[u]
      BY <2>2, <2>3, RecoverEffect
    <3> QED BY <2>1, <2>2, <3>1, NamesEffect DEF f
  <2>4. ASSUME Effect(t), Return(t) PROVE NamesInv'
    BY <2>1, <2>2, <2>4, ReturnFields, NamesEffect
  <2>5. ASSUME UNCHANGED registry, NEW at \in Labels \ {"savepoint"}, NEW do,
               NEW save, Await(t, f, at, do, save)
        PROVE  NamesInv'
    <3>1. frame'[t].at = at /\ \A u \in Task \ {t} : frame'[u] = frame[u]
      BY <2>2, <2>5, AwaitFields
    <3> QED BY <2>1, <2>2, <2>5, <3>1, NamesEffect DEF Effect, registry
  <2>6. UNCHANGED registry => Effect(t)
    BY DEF Effect, registry
  <2>7. CASE BeginOk(t)
    <3>1. /\ Construct("tx", None, f.save, f.reg) /\ Return(t)
          /\ ~Reserved(f.reg, f.save)
          /\ names' = IF f.save = NoSave THEN names ELSE names \union {<<f.reg, f.save>>}
      BY <2>7 DEF BeginOk
    <3>2. /\ "tx" \in Kinds /\ None \in Nat /\ None <= made
          /\ f.save \in Saves /\ f.reg \in Nat
      BY <2>2, OpenType DEF Kinds, None, Frames, NestInv
    <3>3. Waiting = {} /\ Waiting' = {}
      BY <2>1, <2>2, <3>1, ReturnFields DEF Waiting
    <3>4. names = Taken
      BY <3>3 DEF NamesInv, Reserving
    <3>5. f.reg = current
      BY <2>2, <2>7 DEF BeginOk, Resumes, FrameInv
    <3>6. ASSUME f.save # NoSave, NEW h \in open, info[h].save = f.save PROVE FALSE
      <4>1. info[h].reg = f.reg
        BY <3>5 DEF NestInv, WellNested
      <4>2. <<f.reg, f.save>> \in Taken
        BY <3>6, <4>1 DEF Taken, NamesOf
      <4> QED BY <3>1, <3>4, <4>2 DEF Reserved
    <3> HIDE DEF f
    <3> QED BY <3>1, <3>2, <3>3, <3>4, <3>6, NamesConstruct
  <2>8. CASE BeginInterrupted(t) \/ BeginFailed(t) \/ UndoEnds(t)
    <3>1. \/ Return(t) /\ UNCHANGED registry
          \/ \E edge \in {f.edge, None} : \E owns : Recover(t, f, edge, {}, owns, {})
          \/ UNCHANGED registry /\ Await(t, f, "undo", "rollback to", f.save)
      BY <2>8 DEF BeginInterrupted, BeginFailed, UndoEnds
    <3>2. \A edge \in {f.edge, None} : edge \in Nat
      BY <2>2 DEF None
    <3>3. "undo" \in Labels \ {"savepoint"}
      BY DEF Labels
    <3> HIDE DEF f
    <3> QED BY <2>3, <2>4, <2>5, <2>6, <3>1, <3>2, <3>3
  <2>9. CASE FinishFailed(t) \/ SpFailed(t)
    <3>1. \E edge \in {f.edge, f.h} : \E extra, also : Recover(t, f, edge, extra, FALSE, also)
      BY <2>9 DEF FinishFailed, SpFailed
    <3> HIDE DEF f
    <3> QED BY <2>2, <2>3, <3>1
  <2>10. CASE RecoverTo(t) \/ Undone(t) \/ Rolled(t)
    <3>1. /\ UNCHANGED registry
          /\ \E at \in {"recoverRelease", "undoRelease", "rollbackRelease"} :
               Await(t, f, at, "release", f.save)
      BY <2>10 DEF RecoverTo, Undone, Rolled
    <3>2. {"recoverRelease", "undoRelease", "rollbackRelease"} \subseteq Labels \ {"savepoint"}
      BY DEF Labels
    <3> HIDE DEF f
    <3> QED BY <2>5, <3>1, <3>2
  <2>11. CASE RecoverToEnds(t) \/ RecoverEnds(t) \/ Dropped(t) \/ QueryEnds(t)
    <3>1. Return(t) /\ UNCHANGED registry
      BY <2>11 DEF RecoverToEnds, RecoverEnds, Dropped, QueryEnds
    <3> QED BY <2>4, <2>6, <3>1
  <2>12. CASE FinishOk(t) \/ SpReleaseOk(t) \/ SpRollbackOk(t)
    <3>1. Return(t) /\ \E S : Shut(S, {})
      BY <2>12 DEF FinishOk, SpReleaseOk, SpRollbackOk
    <3> QED BY <2>4, <3>1 DEF Effect
  <2> QED BY <1>2, <2>7, <2>8, <2>9, <2>10, <2>11, <2>12 DEF Continues
<1> QED BY <1>1, <1>2

\* The server, the network and the caller touch no name.
LEMMA NamesOutside ==
  ASSUME NestInv, NamesInv,
         \/ \E t \in Task : Answer(t) \/ Cancel(t) \/ Lose(t)
         \/ CallerBegins \/ CallerEnds \/ UNCHANGED vars
  PROVE  NamesInv'
<1>1. /\ UNCHANGED <<info, open, names>>
      /\ \A u \in Task : /\ frame'[u].at = frame[u].at /\ frame'[u].save = frame[u].save
                         /\ frame'[u].reg = frame[u].reg
  <2>1. CASE \E t \in Task : Answer(t) \/ Cancel(t) \/ Lose(t)
    <3>1. PICK t \in Task : \E s, ok : Answered(t, s, ok)
      BY <2>1 DEF Answer, Cancel, Lose
    <3>2. PICK r : frame' = [frame EXCEPT ![t].reply = r]
      BY <3>1 DEF Answered
    <3>3. frame \in [Task -> Frames]
      BY OpenType DEF NestInv
    <3>4. ASSUME NEW u \in Task
          PROVE  /\ frame'[u].at = frame[u].at /\ frame'[u].save = frame[u].save
                 /\ frame'[u].reg = frame[u].reg
      <4>1. frame[u] \in Frames /\ frame[t] \in Frames
        BY <3>3
      <4>2. frame'[u] = IF u = t THEN [frame[t] EXCEPT !.reply = r] ELSE frame[u]
        BY <3>2, <3>3
      <4> QED BY <4>1, <4>2 DEF Frames
    <3> QED BY <3>1, <3>4 DEF Answered, registry
  <2>2. CASE CallerBegins \/ CallerEnds \/ UNCHANGED vars
    BY <2>2 DEF CallerBegins, CallerEnds, vars, registry
  <2> QED BY <2>1, <2>2
<1>2. Waiting' = Waiting
  BY <1>1 DEF Waiting
<1>3. Reserving' = Reserving
  BY <1>1, <1>2 DEF Reserving, Waiting
<1>4. Taken' = Taken
  BY <1>1 DEF Taken, NamesOf
<1> QED BY <1>1, <1>2, <1>3, <1>4 DEF NamesInv, Waiting

\* reserve_savepoint_name and _forget_savepoint, for any names, bounds and
\* faults: one operation at a time, no name stays blocked after the handle that
\* used it is gone, and no name in use can be taken again.
THEOREM NamesExactCorrect ==
  ASSUME Serial
  PROVE  Spec => []NamesExact
<1>1. Init => NestInv /\ NamesInv
  <2> SUFFICES ASSUME Init PROVE NestInv /\ NamesInv
    OBVIOUS
  <2>1. NestInv
    BY NestInit
  <2>2. names = {} /\ open = {} /\ \A t \in Task : frame[t].at = "idle"
    BY DEF Init, NoFrame
  <2> QED BY <2>1, <2>2 DEF NamesInv, Taken, NamesOf, Reserving, Waiting
<1>2. NestInv /\ NamesInv /\ TypeOK' /\ [Next]_vars => NestInv' /\ NamesInv'
  <2> SUFFICES ASSUME NestInv, NamesInv, TypeOK', [Next]_vars
               PROVE  NestInv' /\ NamesInv'
    OBVIOUS
  <2>1. NestStep
    BY NestNext
  <2>2. NestInv'
    BY <2>1 DEF NestStep, NestInv
  <2>3. NamesInv'
    BY <2>1, NamesStarts, NamesContinues, NamesOutside DEF Next
  <2> QED BY <2>2, <2>3
<1>3. NamesInv => NamesExact
  BY DEF NamesInv, NamesExact, Quiet, Taken, Reserving, Waiting
<1>4. Spec => []TypeOK
  BY TypeCorrect
<1> QED BY <1>1, <1>2, <1>3, <1>4, PTL DEF Spec

-----------------------------------------------------------------------------
(* The connection that a pool lent.                                        *)

\* An operation that will hand the connection back when it ends, because its
\* handle is not built yet or is already closed.
Carries(t) ==
  \/ frame[t].at = "start" /\ frame[t].pool
  \/ frame[t].at = "recover" /\ (frame[t].pool \/ pooled # {})

CarryInv(t) ==
  /\ frame[t].at = "idle" => frame[t].reply = "none"
  /\ frame[t].at = "start" /\ frame[t].pool => frame[t].save = NoSave
  /\ frame[t].at \in {"undo", "undoRelease"} => ~frame[t].pool

PoolInv ==
  /\ ~leased => session.txn = "none" /\ Quiet
  /\ \A p \in pooled : IsTx(p) /\ info[p].save = NoSave
  /\ pooled \subseteq open \/ \E t \in Task : frame[t].at = "recover"
  /\ leased => pooled \cap open # {} \/ \E t \in Task : Carries(t)
  /\ \A t \in Task : CarryInv(t)

\* An operation that neither carries the connection nor gives it back.
LEMMA HandsOn ==
  ASSUME PoolInv, NEW t \in Task, \A u \in Task \ {t} : frame'[u] = frame[u],
         info' = info, pooled' = pooled, leased, leased',
         pooled \subseteq open', pooled # {}, CarryInv(t)'
  PROVE  PoolInv'
<1>1. \A u \in Task : CarryInv(u)'
  BY DEF PoolInv, CarryInv
<1>2. pooled' \cap open' # {}
  OBVIOUS
<1> QED BY <1>1, <1>2 DEF PoolInv, IsTx

\* A task that is not recovering and carries nothing finds the connection with
\* an open handle.
LEMMA HeldOpen ==
  ASSUME PoolInv, NEW t \in Task, \A u \in Task \ {t} : frame[u].at = "idle",
         frame[t].at # "recover", ~Carries(t), leased
  PROVE  pooled \subseteq open /\ pooled # {}
<1>1. \A u \in Task : ~Carries(u) /\ frame[u].at # "recover"
  BY DEF Carries
<1> QED BY <1>1 DEF PoolInv

\* Closing handles behind the pooled one leaves it open.
LEMMA PooledStays ==
  ASSUME PoolInv, pooled \subseteq open, NEW S, NEW C, Shut(S, C),
         \A p \in pooled : p \notin S
  PROVE  pooled \subseteq open' /\ info' = info
BY DEF PoolInv, Shut, Fall

\* A pooled connection is never behind a handle that was opened inside another.
LEMMA PooledFirst ==
  ASSUME TypeOK, PoolHeld, NEW h \in open, NEW p \in pooled
  PROVE  p <= h /\ p \in Nat /\ h \in Nat
BY OpenType DEF PoolHeld

\* Recovery keeps the pooled handle behind a nested boundary, and otherwise
\* carries the connection.
LEMMA PoolRecover ==
  ASSUME NestInv, PoolInv, NEW t \in Task, \A u \in Task \ {t} : frame[u].at = "idle",
         leased, frame[t].at # "recover", NEW edge \in open \union {None}, NEW extra,
         NEW owns, NEW also \in SUBSET open, \A e \in also : e >= edge,
         UNCHANGED <<pooled, leased>>, Carries(t) => owns,
         Recover(t, frame[t], edge, extra, owns, also)
  PROVE  PoolInv'
<1>1. /\ frame \in [Task -> Frames] /\ frame[t] \in Frames /\ edge \in Nat
      /\ TypeOK /\ PoolHeld /\ FrameInv(t)
  BY OpenType DEF NestInv, None
<1>2. \A u \in Task \ {t} : frame'[u] = frame[u]
  BY <1>1, RecoverCases
<1>3. Carries(t) \/ (pooled \subseteq open /\ pooled # {})
  BY HeldOpen
<1>4. CASE Return(t) /\ UNCHANGED registry /\ Snapshot(extra) = {} /\ ~owns
  <2>1. pooled \subseteq open /\ pooled # {}
    BY <1>3, <1>4
  <2>2. PICK p \in pooled : p \in open /\ IsTx(p)
    BY <2>1 DEF PoolInv
  <2> QED BY <1>4, <2>2 DEF Snapshot
<1>5. CASE /\ Nested(edge) /\ Shut(After(edge) \union {edge} \union also, {})
           /\ frame'[t].at = "recoverTo"
  <2>1. edge \in open /\ info[edge].save # NoSave
    BY <1>5 DEF Nested
  <2>2. pooled \subseteq open /\ pooled # {}
    BY <1>1, <1>3, <2>1 DEF Carries, FrameInv
  <2>3. ASSUME NEW p \in pooled PROVE p < edge
    <3>1. p # edge
      BY <2>1 DEF PoolInv
    <3> QED BY <1>1, <2>1, <3>1, PooledFirst
  <2>4. \A p \in pooled : p \notin After(edge) \union {edge} \union also
    <3> SUFFICES ASSUME NEW p \in pooled, p \in After(edge) \union {edge} \union also
                 PROVE  FALSE
      OBVIOUS
    <3>1. p < edge /\ p \in Nat /\ edge \in Nat
      BY <1>1, <2>1, <2>3, PooledFirst
    <3>2. p >= edge
      BY <3>1 DEF After
    <3> QED BY <3>1, <3>2
  <2>5. pooled \subseteq open' /\ info' = info
    BY <1>5, <2>2, <2>4, PooledStays
  <2>6. CarryInv(t)'
    BY <1>5 DEF CarryInv
  <2> QED BY <1>2, <2>2, <2>5, <2>6, HandsOn
<1>6. CASE /\ \E S, C : Shut(S, C)
           /\ frame'[t].at = "recover" /\ frame'[t].pool = frame[t].pool
  <2>1. Carries(t)'
    BY <1>3, <1>6 DEF Carries
  <2>2. info' = info
    BY <1>6 DEF Shut
  <2>3. \A u \in Task : CarryInv(u)'
    BY <1>2, <1>6 DEF CarryInv, PoolInv
  <2> QED BY <1>6, <2>1, <2>2, <2>3 DEF PoolInv, IsTx
<1>7. \/ Return(t) /\ UNCHANGED registry /\ Snapshot(extra) = {} /\ ~owns
      \/ /\ Nested(edge) /\ Shut(After(edge) \union {edge} \union also, {})
         /\ frame'[t].at = "recoverTo"
      \/ /\ \E S, C : Shut(S, C)
         /\ frame'[t].at = "recover" /\ frame'[t].pool = frame[t].pool
  BY <1>1, RecoverCases
<1> QED BY <1>4, <1>5, <1>6, <1>7

\* The starts of operations.
LEMMA PoolStarts ==
  ASSUME Pool, Serial, NestInv, PoolInv, NEW t \in Task, Starts(t)
  PROVE  PoolInv'
<1>1. /\ \A u \in Task : frame[u].at = "idle"
      /\ frame \in [Task -> Frames] /\ RegistryOK
  <2>1. Ready(t)
    BY DEF Starts, Begin, Commit, Rollback, Finish, Savepoint, SpRelease,
           SpRollback, SpCall, Query
  <2> QED BY <2>1, OpenType, TypeParts DEF Ready, Quiet, NestInv
<1>2. leased => pooled \subseteq open /\ pooled # {}
  BY <1>1, HeldOpen DEF Carries
<1>3. ASSUME NEW f \in Frames, NEW at \in Labels \ {"idle", "start", "undo", "undoRelease"},
             NEW do, NEW save, Await(t, f, at, do, save), leased,
             UNCHANGED <<info, pooled, leased>>, pooled \subseteq open'
      PROVE  PoolInv'
  <2>1. frame'[t].at = at /\ \A u \in Task \ {t} : frame'[u] = frame[u]
    BY <1>1, <1>3, AwaitFields
  <2>2. CarryInv(t)'
    BY <2>1 DEF CarryInv
  <2> QED BY <1>2, <1>3, <2>1, <2>2, HandsOn
<1>4. ASSUME NEW h \in open
      PROVE  /\ [NoFrame EXCEPT !.h = h, !.reg = info[h].reg, !.edge = h] \in Frames
             /\ [NoFrame EXCEPT !.h = h, !.reg = info[h].reg] \in Frames
             /\ [NoFrame EXCEPT !.h = h, !.reg = info[h].reg,
                                !.edge = info[h].owner] \in Frames
             /\ leased
  <2>1. h \in Nat /\ info[h].reg \in Nat /\ info[h].owner \in Nat
    BY <1>1, InfoType DEF RegistryOK
  <2>2. leased
    BY DEF NestInv, PoolHeld
  <2> QED BY <2>1, <2>2, NoFrameType DEF Frames
<1>5. ASSUME NEW h \in open \union {None}, Begin(t, h)
      PROVE  PoolInv'
  <2> DEFINE inside   == session.txn # "none"
             fromPool == Pool /\ h = None /\ ~leased
             reg      == IF h # None THEN info[h].reg
                         ELSE IF current # None /\ ~fromPool THEN current
                         ELSE regs + 1
             edge     == IF inside /\ Stack(reg) # {} THEN Top(reg) ELSE None
             save     == IF inside THEN minted + 1 ELSE NoSave
             f        == [NoFrame EXCEPT !.h = h, !.reg = reg,
                                         !.pool = fromPool, !.edge = edge]
             do       == IF inside THEN "savepoint" ELSE "begin"
  <2>1. /\ Await(t, f, "start", do, save) /\ UNCHANGED <<info, open, pooled, session>>
        /\ leased' = (leased \/ fromPool)
    BY <1>5 DEF Begin
  <2> HIDE DEF do, edge, reg
  <2>2. f.pool = fromPool
    BY DEF NoFrame
  <2>3. leased' /\ (fromPool <=> ~leased)
    BY <1>4, <2>1 DEF NestInv, PoolHeld
  <2>4. fromPool => save = NoSave
    BY DEF PoolInv
  <2> HIDE DEF f, save, fromPool
  <2>5. /\ frame'[t].at = "start" /\ frame'[t].save = save /\ frame'[t].pool = f.pool
        /\ \A u \in Task \ {t} : frame'[u] = frame[u]
    BY <1>1, <2>1 DEF Await, f, NoFrame
  <2>6. CarryInv(t)'
    BY <2>2, <2>4, <2>5 DEF CarryInv
  <2>7. CASE leased
    BY <1>2, <2>1, <2>3, <2>5, <2>6, <2>7, HandsOn
  <2>8. CASE ~leased
    <3>1. Carries(t)'
      BY <2>2, <2>3, <2>5, <2>8 DEF Carries
    <3>2. \A u \in Task : CarryInv(u)'
      BY <2>5, <2>6 DEF CarryInv, PoolInv
    <3>3. pooled' \subseteq open'
      BY <1>1, <2>1 DEF PoolInv
    <3> QED BY <2>1, <2>3, <3>1, <3>2, <3>3 DEF PoolInv, IsTx
  <2> QED BY <2>7, <2>8
<1>6. ASSUME NEW h \in open, Commit(t, h) \/ Rollback(t, h)
      PROVE  PoolInv'
  <2> DEFINE f == [NoFrame EXCEPT !.h = h, !.reg = info[h].reg, !.edge = h]
  <2>1. PICK at \in {"commit", "rollback"}, do \in Verbs : Finish(t, h, at, do)
    BY <1>6 DEF Commit, Rollback, Verbs
  <2>2. /\ Shut(After(h), {}) /\ Await(t, f, at, do, info[h].save) /\ f \in Frames
        /\ UNCHANGED <<pooled, leased>> /\ leased
    BY <1>4, <2>1 DEF Finish, others
  <2>3. at \in Labels \ {"idle", "start", "undo", "undoRelease"}
    BY <2>1 DEF Labels
  <2>4. \A p \in pooled : p \notin After(h)
    <3> SUFFICES ASSUME NEW p \in pooled, p \in After(h) PROVE FALSE
      OBVIOUS
    <3>1. p <= h /\ p \in Nat /\ h \in Nat /\ p > h
      BY PooledFirst DEF NestInv, After
    <3> QED BY <3>1
  <2>5. pooled \subseteq open' /\ info' = info
    BY <1>2, <2>2, <2>4, PooledStays
  <2> HIDE DEF f
  <2> QED BY <1>3, <2>2, <2>3, <2>5
<1>7. ASSUME NEW h \in open, SpRelease(t, h) \/ SpRollback(t, h)
      PROVE  PoolInv'
  <2> DEFINE f == [NoFrame EXCEPT !.h = h, !.reg = info[h].reg,
                                  !.edge = info[h].owner]
  <2>1. PICK at \in {"spRelease", "spRollback"}, do \in Verbs : SpCall(t, h, at, do)
    BY <1>7 DEF SpRelease, SpRollback, Verbs
  <2>2. /\ Await(t, f, at, do, info[h].save) /\ f \in Frames
        /\ UNCHANGED <<info, open, pooled, leased>> /\ leased
    BY <1>4, <2>1 DEF SpCall, registry, others
  <2>3. at \in Labels \ {"idle", "start", "undo", "undoRelease"}
    BY <2>1 DEF Labels
  <2> HIDE DEF f
  <2> QED BY <1>2, <1>3, <2>2, <2>3
<1>8. ASSUME NEW h \in open, Query(t, h) \/ \E n \in Name : Savepoint(t, h, n)
      PROVE  PoolInv'
  <2> DEFINE f == [NoFrame EXCEPT !.h = h, !.reg = info[h].reg]
  <2>1. /\ \E at \in {"query", "savepoint"} : \E do, save : Await(t, f, at, do, save)
        /\ UNCHANGED <<info, open, pooled, leased>> /\ f \in Frames /\ leased
    BY <1>4, <1>8 DEF Query, Savepoint, registry, others
  <2>2. {"query", "savepoint"} \subseteq Labels \ {"idle", "start", "undo", "undoRelease"}
    BY DEF Labels
  <2> HIDE DEF f
  <2> QED BY <1>2, <1>3, <2>1, <2>2
<1> QED BY <1>5, <1>6, <1>7, <1>8 DEF Starts

\* A task that returns and has given back what it carried.
LEMMA PoolReturn ==
  ASSUME NestInv, PoolInv, NEW t \in Task, \A u \in Task \ {t} : frame[u].at = "idle",
         Return(t), \A p \in pooled' : IsTx(p)' /\ info'[p].save = NoSave,
         pooled' \subseteq open',
         leased' => pooled' # {}, ~leased' => session'.txn = "none"
  PROVE  PoolInv'
<1>1. frame \in [Task -> Frames]
  BY OpenType DEF NestInv
<1>2. /\ \A u \in Task : frame'[u].at = "idle"
      /\ frame'[t].reply = "none"
      /\ \A u \in Task \ {t} : frame'[u] = frame[u]
  <2>1. /\ frame'[t].at = "idle" /\ frame'[t].reply = "none"
        /\ \A u \in Task \ {t} : frame'[u] = frame[u]
    BY <1>1, ReturnFields, Zenon
  <2> QED BY <2>1
<1>3. \A u \in Task : CarryInv(u)'
  BY <1>2 DEF CarryInv, PoolInv
<1>4. leased' => pooled' \cap open' # {}
  OBVIOUS
<1> QED BY <1>2, <1>3, <1>4 DEF PoolInv, Quiet

\* Continuing begin().
LEMMA PoolBegins ==
  ASSUME NestInv, PoolInv, NEW t \in Task, frame[t].at \in {"start", "undo", "undoRelease"},
         \/ BeginOk(t) \/ BeginInterrupted(t) \/ BeginFailed(t)
         \/ Undone(t) \/ UndoEnds(t)
  PROVE  PoolInv'
<1> DEFINE f == frame[t]
<1>1. /\ \A u \in Task \ {t} : frame[u].at = "idle"
      /\ f \in Frames /\ FrameInv(t) /\ CarryInv(t) /\ frame \in [Task -> Frames]
      /\ f.edge \in open \union {None} /\ leased
      /\ \A p \in pooled : IsTx(p) /\ info[p].save = NoSave
  <2>1. leased
    BY DEF PoolInv, Quiet
  <2> QED BY <2>1, Resumed, OpenType DEF NestInv, PoolInv, FrameInv
<1>2. pooled \subseteq open /\ (pooled # {} \/ (f.pool /\ f.at = "start" /\ open = {}))
  <2>1. pooled \subseteq open
    <3>1. \A u \in Task : frame[u].at # "recover"
      BY <1>1
    <3> QED BY <3>1 DEF PoolInv
  <2>2. CASE Carries(t)
    BY <1>1, <2>1, <2>2 DEF Carries, FrameInv
  <2>3. CASE ~Carries(t)
    BY <1>1, <2>3, HeldOpen
  <2> QED BY <2>1, <2>2, <2>3
<1>3. ASSUME NEW edge \in open \union {None}, NEW owns, Carries(t) => owns,
             UNCHANGED <<pooled, leased>>, Recover(t, f, edge, {}, owns, {})
      PROVE  PoolInv'
  <2>1. {} \in SUBSET open /\ \A e \in {} : e >= edge
    OBVIOUS
  <2> QED BY <1>1, <1>3, <2>1, PoolRecover
<1>4. ASSUME ~f.pool, NEW at \in {"undo", "undoRelease"}, NEW do, NEW save,
             Await(t, f, at, do, save), UNCHANGED <<registry, pooled, leased>>
      PROVE  PoolInv'
  <2>1. /\ frame'[t].at = at /\ frame'[t].pool = f.pool
        /\ \A u \in Task \ {t} : frame'[u] = frame[u]
    BY <1>1, <1>4, AwaitFields
  <2>2. CarryInv(t)'
    BY <1>4, <2>1 DEF CarryInv
  <2> QED BY <1>1, <1>2, <1>4, <2>1, <2>2, HandsOn DEF registry
<1>5. CASE BeginOk(t)
  <2> DEFINE m == made + 1
  <2>1. /\ Construct("tx", None, f.save, f.reg) /\ Return(t) /\ leased' = leased
        /\ pooled' = IF f.pool THEN pooled \union {m} ELSE pooled
        /\ f.at = "start"
    BY <1>5 DEF BeginOk, Resumes
  <2>2. /\ made \in Nat /\ open \subseteq 1 .. made /\ open' = open \union {m}
        /\ DOMAIN info = 1 .. made /\ info \in Seq(Records)
    BY <2>1, TypeParts, OpenType DEF Construct, RegistryOK, NestInv
  <2>3. /\ \A h \in open : info'[h] = info[h]
        /\ info'[m].save = f.save /\ info'[m].kind = "tx"
    <3> DEFINE r == [kind |-> "tx", owner |-> None, save |-> f.save, reg |-> f.reg]
    <3>1. r.save = f.save /\ r.kind = "tx"
      OBVIOUS
    <3>2. info' = Append(info, r) /\ made = Len(info) /\ r \in Records
      BY <1>1, <2>1 DEF Construct, Records, made, Frames, Kinds, None
    <3> HIDE DEF r
    <3> QED BY <2>2, <3>1, <3>2
  <2>4. f.pool => f.save = NoSave
    BY <1>1, <2>1 DEF CarryInv
  <2>5. \A p \in pooled' : IsTx(p)' /\ info'[p].save = NoSave
    BY <1>1, <1>2, <2>1, <2>3, <2>4 DEF IsTx
  <2>6. pooled' \subseteq open' /\ pooled' # {}
    BY <1>2, <2>1, <2>2
  <2> QED BY <1>1, <2>1, <2>5, <2>6, PoolReturn
<1>6. CASE BeginInterrupted(t)
  <2>1. UNCHANGED <<pooled, leased>> /\ f.at = "start"
    BY <1>6 DEF BeginInterrupted, Resumes
  <2>2. CASE Recover(t, f, None, {}, TRUE, {})
    BY <1>3, <2>1, <2>2
  <2>3. CASE /\ f.save # NoSave /\ Await(t, f, "undo", "rollback to", f.save)
             /\ UNCHANGED registry
    <3>1. ~f.pool
      BY <1>1, <2>1, <2>3 DEF CarryInv
    <3> QED BY <1>4, <2>1, <2>3, <3>1
  <2> QED BY <1>6, <2>2, <2>3 DEF BeginInterrupted
<1>7. CASE BeginFailed(t)
  <2>1. pooled' = pooled
    BY <1>7 DEF BeginFailed
  <2>2. CASE f.pool /\ GiveBack(TRUE) /\ Return(t) /\ UNCHANGED registry
    <3>1. /\ leased' = FALSE /\ session'.txn = "none"
          /\ UNCHANGED <<info, open>>
      BY <2>2 DEF GiveBack, Fresh, registry
    <3>2. \A p \in pooled' : IsTx(p)' /\ info'[p].save = NoSave
      BY <1>1, <2>1, <3>1 DEF IsTx
    <3> QED BY <1>1, <1>2, <2>1, <2>2, <3>1, <3>2, PoolReturn
  <2>3. CASE /\ ~f.pool /\ UNCHANGED <<leased, session>>
             /\ Recover(t, f, f.edge, {}, f.do = "begin", {})
    <3>1. ~Carries(t)
      BY <2>3 DEF Carries, BeginFailed
    <3> QED BY <1>1, <1>3, <2>1, <2>3, <3>1
  <2> QED BY <1>7, <2>2, <2>3 DEF BeginFailed
<1>8. CASE Undone(t)
  <2>1. /\ f.at = "undo" /\ UNCHANGED <<registry, pooled, leased>>
        /\ Await(t, f, "undoRelease", "release", f.save)
    BY <1>8 DEF Undone, Resumes, others
  <2>2. ~f.pool
    BY <1>1, <2>1 DEF CarryInv
  <2> QED BY <1>4, <2>1, <2>2
<1>9. CASE UndoEnds(t)
  <2>1. /\ f.at \in {"undo", "undoRelease"} /\ UNCHANGED <<pooled, leased, session>>
    BY <1>9 DEF UndoEnds, Resumes, others
  <2>2. ~Carries(t) /\ pooled # {}
    BY <1>2, <2>1 DEF Carries
  <2>3. CASE Return(t) /\ UNCHANGED registry
    <3>1. UNCHANGED <<info, open>>
      BY <2>3 DEF registry
    <3>2. \A p \in pooled' : IsTx(p)' /\ info'[p].save = NoSave
      BY <1>1, <2>1, <3>1 DEF IsTx
    <3> QED BY <1>1, <1>2, <2>1, <2>2, <2>3, <3>1, <3>2, PoolReturn
  <2>4. CASE Recover(t, f, f.edge, {}, FALSE, {})
    BY <1>1, <1>3, <2>1, <2>2, <2>4
  <2> QED BY <1>9, <2>3, <2>4 DEF UndoEnds
<1> QED BY <1>5, <1>6, <1>7, <1>8, <1>9

\* The end of recovery: whoever carried the connection gives it back.
LEMMA PoolRecovered ==
  ASSUME NestInv, PoolInv, NEW t \in Task, RecoverEnds(t)
  PROVE  PoolInv'
<1>1. /\ frame[t].at = "recover" /\ Return(t) /\ pooled' = {}
      /\ GiveBack(pooled # {} \/ frame[t].pool)
  BY DEF RecoverEnds, Resumes
<1>2. /\ \A u \in Task \ {t} : frame[u].at = "idle"
      /\ FrameInv(t) /\ frame \in [Task -> Frames]
  BY <1>1, Resumed, OpenType DEF NestInv
<1>3. leased
  BY <1>1 DEF PoolInv, Quiet
<1>4. open = {}
  BY <1>1, <1>2 DEF FrameInv
<1>5. Carries(t)
  BY <1>1, <1>2, <1>3, <1>4 DEF PoolInv, Carries
<1>6. leased' = FALSE /\ session'.txn = "none"
  BY <1>1, <1>5 DEF Carries, GiveBack, Fresh
<1> QED BY <1>1, <1>2, <1>6, PoolReturn

\* commit() or rollback() succeeded: the handle closes, and the one that holds
\* the connection gives it back.
LEMMA PoolFinished ==
  ASSUME NestInv, PoolInv, NEW t \in Task, FinishOk(t)
  PROVE  PoolInv'
<1> DEFINE h == frame[t].h
<1>1. /\ frame[t].at \in {"commit", "rollback", "rollbackRelease"}
      /\ Shut({h}, {}) /\ GiveBack(h \in pooled) /\ pooled' = pooled \ {h}
      /\ Return(t)
  BY DEF FinishOk, Resumes
<1>2. /\ \A u \in Task \ {t} : frame[u].at = "idle"
      /\ FrameInv(t) /\ leased
  BY <1>1, Resumed DEF PoolInv, Quiet
<1>3. h \in open /\ pooled \subseteq open /\ pooled # {}
  <2>1. ~Carries(t) /\ frame[t].at # "recover"
    BY <1>1 DEF Carries
  <2>2. h \in open
    BY <1>1, <1>2 DEF FrameInv
  <2> HIDE DEF h
  <2> QED BY <1>2, <2>1, <2>2, HeldOpen
<1> HIDE DEF h
<1>4. open' = open \ Fall({h}) /\ info' = info
  BY <1>1 DEF Shut
<1>5. \A p \in pooled' : p \in open' /\ IsTx(p)' /\ info'[p].save = NoSave
  <2> SUFFICES ASSUME NEW p \in pooled'
               PROVE  p \in open' /\ IsTx(p)' /\ info'[p].save = NoSave
    OBVIOUS
  <2>1. p \in pooled /\ p # h /\ IsTx(p) /\ info[p].save = NoSave
    BY <1>1 DEF PoolInv
  <2>2. p \notin Fall({h})
    BY <2>1 DEF Fall
  <2> QED BY <1>3, <1>4, <2>1, <2>2 DEF IsTx
<1>6. CASE h \in pooled
  <2>1. leased' = FALSE /\ session'.txn = "none"
    BY <1>1, <1>6 DEF GiveBack, Fresh
  <2> QED BY <1>1, <1>2, <1>5, <2>1, PoolReturn
<1>7. CASE h \notin pooled
  <2>1. leased' /\ pooled' # {}
    BY <1>1, <1>2, <1>3, <1>7 DEF GiveBack
  <2> QED BY <1>1, <1>2, <1>5, <2>1, PoolReturn
<1> QED BY <1>6, <1>7

\* The operations of handles keep the connection where it is.
LEMMA PoolContinues ==
  ASSUME NestInv, PoolInv, NEW t \in Task, Continues(t)
  PROVE  PoolInv'
<1> DEFINE f == frame[t]
<1>1. CASE \/ BeginOk(t) \/ BeginInterrupted(t) \/ BeginFailed(t)
           \/ Undone(t) \/ UndoEnds(t)
  <2>1. f.at \in {"start", "undo", "undoRelease"}
    BY <1>1 DEF BeginOk, BeginInterrupted, BeginFailed, Undone, UndoEnds, Resumes
  <2> QED BY <1>1, <2>1, PoolBegins
<1>2. CASE RecoverEnds(t)
  BY <1>2, PoolRecovered
<1>3. CASE FinishOk(t)
  BY <1>3, PoolFinished
<1>4. CASE \/ RecoverTo(t) \/ RecoverToEnds(t) \/ Rolled(t) \/ FinishFailed(t)
           \/ SavepointOk(t) \/ SavepointInterrupted(t) \/ SavepointFailed(t)
           \/ Dropped(t) \/ SpReleaseOk(t) \/ SpRollbackOk(t) \/ SpFailed(t)
           \/ QueryEnds(t)
  <2>1. /\ f.at \notin {"idle", "start", "undo", "undoRelease", "recover"}
        /\ UNCHANGED <<pooled, leased>>
    BY <1>4 DEF RecoverTo, RecoverToEnds, Rolled, FinishFailed, SavepointOk,
       SavepointInterrupted, SavepointFailed, Dropped, SpReleaseOk, SpRollbackOk,
       SpFailed, QueryEnds, Resumes, others
  <2>2. /\ \A u \in Task \ {t} : frame[u].at = "idle"
        /\ f \in Frames /\ FrameInv(t) /\ frame \in [Task -> Frames]
        /\ leased /\ ~Carries(t)
        /\ \A p \in pooled : IsTx(p) /\ info[p].save = NoSave
    BY <2>1, Resumed, OpenType DEF NestInv, PoolInv, Quiet, Carries
  <2>3. pooled \subseteq open /\ pooled # {}
    BY <2>1, <2>2, HeldOpen
  <2>4. ASSUME Return(t), pooled \subseteq open', \A p \in pooled : info'[p] = info[p]
        PROVE  PoolInv'
    <3>1. \A p \in pooled' : IsTx(p)' /\ info'[p].save = NoSave
      BY <2>1, <2>2, <2>4 DEF IsTx
    <3> QED BY <2>1, <2>2, <2>3, <2>4, <3>1, PoolReturn
  <2>5. CASE RecoverToEnds(t) \/ SavepointFailed(t) \/ Dropped(t) \/ QueryEnds(t)
    <3>1. Return(t) /\ UNCHANGED <<info, open>>
      BY <2>5 DEF RecoverToEnds, SavepointFailed, Dropped, QueryEnds, registry
    <3> QED BY <2>3, <2>4, <3>1
  <2>6. CASE RecoverTo(t) \/ Rolled(t) \/ SavepointInterrupted(t)
    <3>1. /\ UNCHANGED <<info, open>>
          /\ \E at \in {"recoverRelease", "rollbackRelease", "drop"} :
               Await(t, f, at, "release", f.save)
      BY <2>6 DEF RecoverTo, Rolled, SavepointInterrupted, registry
    <3> HIDE DEF f
    <3>2. /\ frame'[t].at \in {"recoverRelease", "rollbackRelease", "drop"}
          /\ \A u \in Task \ {t} : frame'[u] = frame[u]
      BY <2>2, <3>1, AwaitFields
    <3>3. CarryInv(t)'
      BY <3>2 DEF CarryInv
    <3> QED BY <2>1, <2>2, <2>3, <3>1, <3>2, <3>3, HandsOn
  <2>7. CASE SavepointOk(t)
    <3>1. /\ Construct("sp", f.h, f.save, f.reg) /\ Return(t)
      BY <2>7 DEF SavepointOk
    <3>2. /\ DOMAIN info = 1 .. made /\ open \subseteq 1 .. made /\ made \in Nat
          /\ info \in Seq(Records)
      BY TypeParts, OpenType DEF RegistryOK, NestInv
    <3>3. \A p \in open : info'[p] = info[p]
      <4> DEFINE r == [kind |-> "sp", owner |-> f.h, save |-> f.save, reg |-> f.reg]
      <4>1. info' = Append(info, r) /\ r \in Records /\ made = Len(info)
        BY <2>2, <3>1 DEF Construct, Records, made, Frames, Kinds
      <4> HIDE DEF r
      <4> QED BY <3>2, <4>1
    <3>4. open \subseteq open'
      BY <3>1 DEF Construct
    <3> QED BY <2>3, <2>4, <3>1, <3>3, <3>4
  <2>8. ASSUME f.at \in {"spRelease", "spRollback"}
        PROVE  /\ f.h \in open /\ ~IsTx(f.h) /\ f.edge = info[f.h].owner
               /\ f.edge \in open /\ f.edge < f.h
               /\ After(f.h) \union {f.h} \subseteq open
               /\ \A e \in After(f.h) \union {f.h} : e >= f.h /\ e \notin pooled
    <3>1. f.h \in open /\ ~IsTx(f.h) /\ f.edge = info[f.h].owner
      BY <2>2, <2>8 DEF FrameInv
    <3>2. f.edge \in open /\ f.edge < f.h
      BY <3>1 DEF NestInv, WellNested
    <3> HIDE DEF f
    <3>3. f.h \in Nat /\ \A e \in open : e \in Nat
      BY <3>1, OpenType DEF NestInv
    <3>4. ASSUME NEW e \in After(f.h) \union {f.h} PROVE e >= f.h /\ e \notin pooled
      <4>1. e \in open /\ e >= f.h /\ (e = f.h \/ e > f.h)
        BY <3>1, <3>3 DEF After, Entries
      <4>2. ASSUME e \in pooled PROVE FALSE
        <5>1. e <= f.h
          BY <3>1, <4>2, PooledFirst DEF NestInv
        <5>2. e = f.h
          BY <3>3, <4>1, <5>1
        <5> QED BY <2>2, <3>1, <4>2, <5>2
      <4> QED BY <4>1, <4>2
    <3>5. After(f.h) \union {f.h} \subseteq open
      BY <3>1 DEF After, Entries
    <3> QED BY <3>1, <3>2, <3>4, <3>5
  <2>9. CASE SpReleaseOk(t) \/ SpRollbackOk(t)
    <3>1. /\ f.at \in {"spRelease", "spRollback"} /\ Return(t)
          /\ \E S \in SUBSET (After(f.h) \union {f.h}) : Shut(S, {})
      BY <2>9 DEF SpReleaseOk, SpRollbackOk, Resumes
    <3> HIDE DEF f
    <3>2. PICK S \in SUBSET (After(f.h) \union {f.h}) : Shut(S, {})
      BY <3>1
    <3>3. \A p \in pooled : p \notin S
      BY <2>8, <3>1, <3>2
    <3>4. pooled \subseteq open' /\ info' = info
      BY <2>3, <3>2, <3>3, PooledStays
    <3> QED BY <2>4, <3>1, <3>4
  <2>10. CASE SpFailed(t)
    <3>1. /\ f.at \in {"spRelease", "spRollback"}
          /\ Recover(t, f, f.edge, {f.edge}, FALSE, After(f.h) \union {f.h})
      BY <2>10 DEF SpFailed, Resumes
    <3>2. \A e \in After(f.h) \union {f.h} : e >= f.edge
      <4>1. f.edge \in Nat /\ f.h \in Nat /\ \A e \in open : e \in Nat
        BY <2>8, <3>1, OpenType DEF NestInv
      <4> HIDE DEF f
      <4> QED BY <2>8, <3>1, <4>1
    <3>3. f.edge \in open \union {None} /\ After(f.h) \union {f.h} \in SUBSET open
      BY <2>8, <3>1
    <3> QED BY <2>1, <2>2, <3>1, <3>2, <3>3, PoolRecover
  <2>11. CASE FinishFailed(t)
    <3>1. /\ f.at \in {"commit", "rollback", "rollbackRelease"}
          /\ Recover(t, f, f.h, {f.h}, FALSE, {})
      BY <2>11 DEF FinishFailed, Resumes
    <3>2. f.h \in open \union {None}
      BY <2>2, <3>1 DEF FrameInv
    <3>3. {} \in SUBSET open /\ \A e \in {} : e >= f.h
      OBVIOUS
    <3> QED BY <2>1, <2>2, <3>1, <3>2, <3>3, PoolRecover
  <2> QED BY <1>4, <2>5, <2>6, <2>7, <2>9, <2>10, <2>11
<1> QED BY <1>1, <1>2, <1>3, <1>4 DEF Continues

\* The server answers only an operation that runs, and the caller uses only
\* direct connections.
LEMMA PoolOutside ==
  ASSUME Pool, NestInv, PoolInv,
         \/ \E t \in Task : Answer(t) \/ Cancel(t) \/ Lose(t)
         \/ CallerBegins \/ CallerEnds \/ UNCHANGED vars
  PROVE  PoolInv'
<1>1. CASE \E t \in Task : Answer(t) \/ Cancel(t) \/ Lose(t)
  <2>1. PICK t \in Task : /\ \E s, ok : Answered(t, s, ok)
                          /\ frame[t].reply = "waiting"
    BY <1>1 DEF Answer, Cancel, Lose, Waits
  <2>2. PICK r : frame' = [frame EXCEPT ![t].reply = r]
    BY <2>1 DEF Answered
  <2>3. frame \in [Task -> Frames]
    BY OpenType DEF NestInv
  <2>4. /\ UNCHANGED <<info, open, pooled, leased>>
        /\ frame[t].at # "idle"
    BY <2>1 DEF Answered, registry, PoolInv, CarryInv
  <2>5. leased
    BY <2>4 DEF PoolInv, Quiet
  <2>6. ASSUME NEW u \in Task
        PROVE  /\ frame'[u].at = frame[u].at /\ frame'[u].save = frame[u].save
               /\ frame'[u].pool = frame[u].pool
               /\ u # t => frame'[u].reply = frame[u].reply
    <3>1. frame[u] \in Frames /\ frame[t] \in Frames
      BY <2>3
    <3>2. frame'[u] = IF u = t THEN [frame[t] EXCEPT !.reply = r] ELSE frame[u]
      BY <2>2, <2>3
    <3> QED BY <3>1, <3>2 DEF Frames
  <2>7. \A u \in Task : CarryInv(u)'
    BY <2>4, <2>6 DEF CarryInv, PoolInv
  <2>8. \A u \in Task : Carries(u)' = Carries(u)
    BY <2>4, <2>6 DEF Carries
  <2> QED BY <2>4, <2>5, <2>6, <2>7, <2>8 DEF PoolInv, IsTx
<1>2. CASE UNCHANGED vars
  BY <1>2 DEF PoolInv, vars, registry, others, IsTx, Carries, CarryInv, Quiet
<1> QED BY <1>1, <1>2 DEF CallerBegins, CallerEnds

-----------------------------------------------------------------------------
(* A direct connection is lent by nobody.                                  *)

DirectInv == ~leased /\ pooled = {} /\ \A t \in Task : ~frame[t].pool

\* Sending a command and returning leave a frame that acquired nothing.
LEMMA DirectFrames ==
  ASSUME TypeOK, DirectInv, NEW t \in Task, ~leased', pooled' = {},
         \/ Return(t)
         \/ \E at, do, save : Await(t, frame[t], at, do, save)
         \/ \E at, do, save : \E f \in Frames : ~f.pool /\ Await(t, f, at, do, save)
         \/ \E edge \in Nat : \E extra, owns, also :
              Recover(t, frame[t], edge, extra, owns, also)
  PROVE  DirectInv'
<1>1. frame \in [Task -> Frames] /\ frame[t] \in Frames /\ ~frame[t].pool
  BY OpenType DEF DirectInv
<1>2. ~frame'[t].pool /\ \A u \in Task \ {t} : frame'[u] = frame[u]
  <2>1. Return(t) => frame'[t].pool = FALSE /\ \A u \in Task \ {t} : frame'[u] = frame[u]
    BY <1>1, ReturnFields
  <2>2. ASSUME NEW f \in Frames, ~f.pool, NEW at, NEW do, NEW save,
               Await(t, f, at, do, save)
        PROVE  ~frame'[t].pool /\ \A u \in Task \ {t} : frame'[u] = frame[u]
    BY <1>1, <2>2, AwaitFields
  <2>3. ASSUME NEW edge \in Nat, NEW extra, NEW owns, NEW also,
               Recover(t, frame[t], edge, extra, owns, also)
        PROVE  ~frame'[t].pool /\ \A u \in Task \ {t} : frame'[u] = frame[u]
    BY <1>1, <2>1, <2>3, RecoverCases
  <2> QED BY <1>1, <2>1, <2>2, <2>3
<1> QED BY <1>2 DEF DirectInv

\* On a direct connection begin() acquires nothing, and no other operation does.
LEMMA DirectStarts ==
  ASSUME ~Pool, TypeOK, DirectInv, NEW t \in Task, Starts(t)
  PROVE  DirectInv'
<1>1. frame \in [Task -> Frames] /\ RegistryOK
  BY TypeParts, OpenType
<1>2. ASSUME NEW h \in open
      PROVE  /\ [NoFrame EXCEPT !.h = h, !.reg = info[h].reg, !.edge = h] \in Frames
             /\ [NoFrame EXCEPT !.h = h, !.reg = info[h].reg] \in Frames
             /\ [NoFrame EXCEPT !.h = h, !.reg = info[h].reg,
                                !.edge = info[h].owner] \in Frames
  <2>1. h \in Nat /\ info[h].reg \in Nat /\ info[h].owner \in Nat
    BY <1>1, InfoType DEF RegistryOK
  <2> QED BY <2>1, NoFrameType DEF Frames
<1>3. ASSUME NEW h \in open \union {None}, Begin(t, h)
      PROVE  DirectInv'
  <2> DEFINE inside   == session.txn # "none"
             fromPool == Pool /\ h = None /\ ~leased
             reg      == IF h # None THEN info[h].reg
                         ELSE IF current # None /\ ~fromPool THEN current
                         ELSE regs + 1
             edge     == IF inside /\ Stack(reg) # {} THEN Top(reg) ELSE None
             save     == IF inside THEN minted + 1 ELSE NoSave
             f        == [NoFrame EXCEPT !.h = h, !.reg = reg,
                                         !.pool = fromPool, !.edge = edge]
             do       == IF inside THEN "savepoint" ELSE "begin"
  <2>1. /\ Await(t, f, "start", do, save) /\ pooled' = pooled
        /\ leased' = (leased \/ fromPool)
    BY <1>3 DEF Begin
  <2> HIDE DEF do, edge, reg, save
  <2>2. ~fromPool
    OBVIOUS
  <2> HIDE DEF fromPool
  <2>3. ~frame'[t].pool /\ \A u \in Task \ {t} : frame'[u] = frame[u]
    BY <1>1, <2>1, <2>2 DEF Await, NoFrame
  <2> QED BY <2>1, <2>2, <2>3 DEF DirectInv
<1>4. ASSUME NEW h \in open,
             \/ Commit(t, h) \/ Rollback(t, h) \/ SpRelease(t, h) \/ SpRollback(t, h)
             \/ Query(t, h) \/ \E n \in Name : Savepoint(t, h, n)
      PROVE  DirectInv'
  <2> DEFINE f1 == [NoFrame EXCEPT !.h = h, !.reg = info[h].reg, !.edge = h]
             f2 == [NoFrame EXCEPT !.h = h, !.reg = info[h].reg]
             f3 == [NoFrame EXCEPT !.h = h, !.reg = info[h].reg, !.edge = info[h].owner]
  <2>1. /\ UNCHANGED <<pooled, leased>>
        /\ \E at, do, save : \/ Await(t, f1, at, do, save) \/ Await(t, f2, at, do, save)
                             \/ Await(t, f3, at, do, save)
    BY <1>4 DEF Commit, Rollback, Finish, SpRelease, SpRollback, SpCall, Query,
                Savepoint, others
  <2>2. \A f \in {f1, f2, f3} : f \in Frames /\ ~f.pool
    BY <1>2 DEF NoFrame
  <2> HIDE DEF f1, f2, f3
  <2>3. \E f \in Frames : \E at, do, save : ~f.pool /\ Await(t, f, at, do, save)
    BY <2>1, <2>2
  <2>4. ~leased' /\ pooled' = {}
    BY <2>1 DEF DirectInv
  <2> QED BY <2>3, <2>4, DirectFrames
<1> QED BY <1>3, <1>4 DEF Starts

\* No operation on a direct connection gives one back, whatever its reply.
LEMMA DirectContinues ==
  ASSUME TypeOK, DirectInv, NEW t \in Task, Continues(t)
  PROVE  DirectInv'
<1>1. ~frame[t].pool /\ frame[t].h \in Nat /\ frame[t].edge \in Nat /\ None \in Nat
  BY OpenType DEF DirectInv, Frames, None
<1>2. ~leased' /\ pooled' = {}
  <2>1. ~leased /\ pooled = {}
    BY DEF DirectInv
  <2>2. CASE BeginOk(t) \/ BeginFailed(t) \/ RecoverEnds(t) \/ FinishOk(t)
    BY <1>1, <2>1, <2>2 DEF BeginOk, BeginFailed, RecoverEnds, FinishOk, GiveBack
  <2>3. CASE ~(BeginOk(t) \/ BeginFailed(t) \/ RecoverEnds(t) \/ FinishOk(t))
    <3>1. UNCHANGED <<pooled, leased>>
      BY <2>3 DEF Continues, RecoverTo, RecoverToEnds, BeginInterrupted, Undone,
         UndoEnds, Rolled, FinishFailed, SavepointOk, SavepointInterrupted,
         SavepointFailed, Dropped, SpReleaseOk, SpRollbackOk, SpFailed, QueryEnds, others
    <3> QED BY <2>1, <3>1
  <2> QED BY <2>2, <2>3
<1>3. \/ Return(t)
      \/ \E at, do, save : Await(t, frame[t], at, do, save)
      \/ \E edge \in Nat : \E extra, owns, also :
           Recover(t, frame[t], edge, extra, owns, also)
  <2>1. CASE \/ RecoverTo(t) \/ Undone(t) \/ Rolled(t) \/ SavepointInterrupted(t)
    BY <2>1 DEF RecoverTo, Undone, Rolled, SavepointInterrupted
  <2>2. CASE \/ RecoverToEnds(t) \/ RecoverEnds(t) \/ BeginOk(t) \/ FinishOk(t)
             \/ SavepointOk(t) \/ SavepointFailed(t) \/ Dropped(t) \/ SpReleaseOk(t)
             \/ SpRollbackOk(t) \/ QueryEnds(t)
    BY <2>2 DEF RecoverToEnds, RecoverEnds, BeginOk, FinishOk, SavepointOk,
       SavepointFailed, Dropped, SpReleaseOk, SpRollbackOk, QueryEnds
  <2>3. CASE \/ BeginInterrupted(t) \/ BeginFailed(t) \/ UndoEnds(t)
             \/ FinishFailed(t) \/ SpFailed(t)
    BY <1>1, <2>3 DEF BeginInterrupted, BeginFailed, UndoEnds, FinishFailed, SpFailed
  <2> QED BY <2>1, <2>2, <2>3 DEF Continues
<1> QED BY <1>2, <1>3, DirectFrames

\* The server, the network and the caller lend nothing either.
LEMMA DirectOutside ==
  ASSUME TypeOK, DirectInv,
         \/ \E t \in Task : Answer(t) \/ Cancel(t) \/ Lose(t)
         \/ CallerBegins \/ CallerEnds \/ UNCHANGED vars
  PROVE  DirectInv'
<1>1. CASE \E t \in Task : Answer(t) \/ Cancel(t) \/ Lose(t)
  <2>1. PICK t \in Task : \E s, ok : Answered(t, s, ok)
    BY <1>1 DEF Answer, Cancel, Lose
  <2>2. PICK r : frame' = [frame EXCEPT ![t].reply = r]
    BY <2>1 DEF Answered
  <2>3. frame \in [Task -> Frames]
    BY OpenType
  <2>4. ASSUME NEW u \in Task PROVE ~frame'[u].pool
    <3>1. frame[u] \in Frames /\ frame[t] \in Frames
      BY <2>3
    <3>2. frame'[u] = IF u = t THEN [frame[t] EXCEPT !.reply = r] ELSE frame[u]
      BY <2>2, <2>3
    <3> QED BY <3>1, <3>2 DEF Frames, DirectInv
  <2> QED BY <2>1, <2>4 DEF Answered, DirectInv
<1>2. CASE CallerBegins \/ CallerEnds \/ UNCHANGED vars
  BY <1>2 DEF DirectInv, CallerBegins, CallerEnds, vars, others
<1> QED BY <1>1, <1>2

\* The pool lease, for any names, bounds and faults: between operations the
\* connection is checked out exactly while an open handle will give it back
\* (_finish_pool_connection), also after a begin() that failed, a recovery
\* that was itself interrupted, and a lost connection.
THEOREM ConnectionAccountedCorrect == Spec => []ConnectionAccounted
<1>1. ASSUME Pool PROVE Spec => []ConnectionAccounted
  <2>1. Serial
    BY <1>1, ConstantsAssumption DEF ConstantsAssumption
  <2>2. Init => NestInv /\ PoolInv
    <3> SUFFICES ASSUME Init PROVE NestInv /\ PoolInv
      OBVIOUS
    <3>1. NestInv
      BY NestInit
    <3>2. /\ ~leased /\ session.txn = "none" /\ pooled = {}
          /\ \A t \in Task : frame[t].at = "idle" /\ frame[t].reply = "none"
      BY DEF Init, Fresh, NoFrame
    <3> QED BY <3>1, <3>2 DEF PoolInv, Quiet, CarryInv
  <2>3. NestInv /\ PoolInv /\ TypeOK' /\ [Next]_vars => NestInv' /\ PoolInv'
    <3> SUFFICES ASSUME NestInv, PoolInv, TypeOK', [Next]_vars
                 PROVE  NestInv' /\ PoolInv'
      OBVIOUS
    <3>1. NestInv'
      BY <2>1, NestNext DEF NestStep, NestInv
    <3>2. PoolInv'
      BY <1>1, <2>1, PoolStarts, PoolContinues, PoolOutside DEF Next
    <3> QED BY <3>1, <3>2
  <2>4. NestInv /\ PoolInv => ConnectionAccounted
    <3> SUFFICES ASSUME NestInv, PoolInv, Quiet
                 PROVE  (leased <=> pooled \cap open # {}) /\ pooled \subseteq open
      BY DEF ConnectionAccounted
    <3>1. \A t \in Task : ~Carries(t) /\ frame[t].at # "recover"
      BY DEF Quiet, Carries
    <3>2. pooled \cap open # {} => leased
      BY <1>1 DEF NestInv, PoolHeld
    <3> QED BY <3>1, <3>2 DEF PoolInv
  <2>5. Spec => []TypeOK
    BY TypeCorrect
  <2> QED BY <2>2, <2>3, <2>4, <2>5, PTL DEF Spec
<1>2. ASSUME ~Pool PROVE Spec => []ConnectionAccounted
  <2>1. Init => DirectInv
    BY DEF Init, DirectInv, NoFrame
  <2>2. TypeOK /\ DirectInv /\ [Next]_vars => DirectInv'
    BY <1>2, DirectStarts, DirectContinues, DirectOutside DEF Next
  <2>3. DirectInv => ConnectionAccounted
    BY DEF DirectInv, ConnectionAccounted
  <2>4. Spec => []TypeOK
    BY TypeCorrect
  <2> QED BY <2>1, <2>2, <2>3, <2>4, PTL DEF Spec
<1> QED BY <1>1, <1>2

-----------------------------------------------------------------------------
(* A transaction that the caller opened.                                   *)

\* An operation that runs while the caller's transaction is open: every handle
\* it may build, close or recover is a savepoint.
InCallers(t) ==
  /\ frame[t].do \notin {"begin", "commit", "rollback"}
  /\ frame[t].at = "start" => frame[t].save # NoSave
  /\ frame[t].at \in {"start", "undo", "undoRelease"} =>
       \/ (frame[t].edge = None /\ open = {})
       \/ (frame[t].edge \in open /\ IsTx(frame[t].edge))

CallerInv ==
  /\ Pool => session.txn # "caller"
  /\ \A t \in Task : frame[t].at = "idle" => frame[t].do = "none"
  /\ session.txn = "caller" =>
       /\ \A h \in open : IsTx(h) => info[h].save # NoSave
       /\ \A t \in Task : InCallers(t)

\* No task ends the caller's transaction, or makes one.
CallerStep ==
  /\ CallerInv'
  /\ session.txn = "caller" /\ session'.txn # "caller" => frame' = frame

\* A task goes on outside of the caller's transactions.
LEMMA CallerAway ==
  ASSUME CallerInv, session.txn # "caller", session'.txn # "caller",
         NEW t \in Task, \A u \in Task \ {t} : frame'[u] = frame[u],
         frame'[t].at = "idle" => frame'[t].do = "none"
  PROVE  CallerStep
BY DEF CallerInv, CallerStep

\* A task goes on inside one and constructs nothing.
LEMMA CallerGoes ==
  ASSUME CallerInv, session'.txn = session.txn, NEW t \in Task,
         \A u \in Task \ {t} : frame'[u] = frame[u] /\ frame[u].at = "idle",
         frame'[t].at = "idle" => frame'[t].do = "none",
         open' \subseteq open, info' = info,
         session.txn = "caller" => InCallers(t)'
  PROVE  CallerStep
<1>1. ASSUME session.txn = "caller", NEW u \in Task PROVE InCallers(u)'
  BY <1>1 DEF InCallers, CallerInv
<1> QED BY <1>1 DEF CallerInv, CallerStep, IsTx

\* Recovery never sends the raw rollback into the caller's transaction: there
\* is a savepoint to go back to, or nothing to do.
LEMMA CallerRecover ==
  ASSUME NestInv, CallerInv, NEW t \in Task, \A u \in Task \ {t} : frame[u].at = "idle",
         NEW edge \in open \union {None}, NEW extra, NEW owns, NEW also,
         session' = session, Recover(t, frame[t], edge, extra, owns, also),
         session.txn = "caller" => \/ (edge = None /\ Snapshot(extra) = {} /\ ~owns)
                                   \/ (edge \in open /\ IsTx(edge))
  PROVE  CallerStep
<1>1. frame \in [Task -> Frames] /\ frame[t] \in Frames /\ edge \in Nat
  BY OpenType DEF NestInv, None
<1>2. \A u \in Task \ {t} : frame'[u] = frame[u]
  BY <1>1, RecoverCases
<1>3. open' \subseteq open /\ info' = info
  BY DEF Recover, RecoverBoundary, RecoverAll, Shut, registry
<1>4. CASE Return(t)
  <2>1. frame'[t].at = "idle" /\ frame'[t].do = "none"
    BY <1>1, <1>4, ReturnFields
  <2>2. InCallers(t)'
    BY <2>1 DEF InCallers
  <2> QED BY <1>2, <1>3, <2>1, <2>2, CallerGoes
<1>5. CASE RecoverBoundary(t, frame[t], edge, After(edge) \union {edge} \union also)
  <2>1. frame'[t].at = "recoverTo" /\ frame'[t].do = "rollback to"
    BY <1>1, <1>5, BoundaryDo
  <2>2. InCallers(t)'
    BY <2>1 DEF InCallers
  <2> QED BY <1>2, <1>3, <2>1, <2>2, CallerGoes
<1>6. CASE /\ ~(Snapshot(extra) = {} /\ ~owns) /\ ~Nested(edge)
           /\ RecoverAll(t, frame[t], Snapshot(extra), also)
  <2>1. session.txn # "caller"
    <3> SUFFICES ASSUME session.txn = "caller" PROVE FALSE
      OBVIOUS
    <3>1. edge \in open /\ IsTx(edge) /\ edge # None
      BY <1>6, OpenType DEF None, NestInv
    <3> QED BY <1>6, <3>1 DEF CallerInv, Nested
  <2>2. frame'[t].at = "recover"
    BY <1>1, <1>6, AwaitFields DEF RecoverAll
  <2> QED BY <1>2, <2>1, <2>2, CallerAway
<1> QED BY <1>4, <1>5, <1>6 DEF Recover

\* Inside the caller's transaction begin() sends a SAVEPOINT, and commit() and
\* rollback() of its handles a RELEASE or a ROLLBACK TO.
LEMMA CallerStarts ==
  ASSUME Serial, NestInv, CallerInv, NEW t \in Task, Starts(t)
  PROVE  CallerStep
<1>1. /\ \A u \in Task : frame[u].at = "idle"
      /\ frame \in [Task -> Frames] /\ RegistryOK
  <2>1. Ready(t)
    BY DEF Starts, Begin, Commit, Rollback, Finish, Savepoint, SpRelease,
           SpRollback, SpCall, Query
  <2> QED BY <2>1, OpenType, TypeParts DEF Ready, Quiet, NestInv
<1>2. ASSUME NEW f \in Frames, NEW at \in Labels \ {"idle", "start", "undo", "undoRelease"},
             NEW do, NEW save, Await(t, f, at, do, save), session' = session,
             open' \subseteq open, info' = info,
             session.txn = "caller" => do \notin {"begin", "commit", "rollback"}
      PROVE  CallerStep
  <2>1. /\ frame'[t].at = at /\ frame'[t].do = do
        /\ \A u \in Task \ {t} : frame'[u] = frame[u]
    BY <1>1, <1>2, AwaitFields, AwaitDo
  <2>2. session.txn = "caller" => InCallers(t)'
    BY <1>2, <2>1 DEF InCallers
  <2> QED BY <1>1, <1>2, <2>1, <2>2, CallerGoes
<1>3. ASSUME NEW h \in open
      PROVE  /\ [NoFrame EXCEPT !.h = h, !.reg = info[h].reg, !.edge = h] \in Frames
             /\ [NoFrame EXCEPT !.h = h, !.reg = info[h].reg] \in Frames
             /\ [NoFrame EXCEPT !.h = h, !.reg = info[h].reg,
                                !.edge = info[h].owner] \in Frames
  <2>1. h \in Nat /\ info[h].reg \in Nat /\ info[h].owner \in Nat
    BY <1>1, InfoType DEF RegistryOK
  <2> QED BY <2>1, NoFrameType DEF Frames
<1>4. ASSUME NEW h \in open \union {None}, Begin(t, h)
      PROVE  CallerStep
  <2> DEFINE inside   == session.txn # "none"
             fromPool == Pool /\ h = None /\ ~leased
             reg      == IF h # None THEN info[h].reg
                         ELSE IF current # None /\ ~fromPool THEN current
                         ELSE regs + 1
             edge     == IF inside /\ Stack(reg) # {} THEN Top(reg) ELSE None
             save     == IF inside THEN minted + 1 ELSE NoSave
             f        == [NoFrame EXCEPT !.h = h, !.reg = reg,
                                         !.pool = fromPool, !.edge = edge]
             do       == IF inside THEN "savepoint" ELSE "begin"
  <2>1. Await(t, f, "start", do, save) /\ UNCHANGED <<info, open, session>>
    BY <1>4 DEF Begin
  <2>2. ASSUME session.txn = "caller", open # {}
        PROVE  edge \in open /\ IsTx(edge)
    <3>1. PICK e \in open : info[e].reg = current /\ current # None
      BY <2>2 DEF NestInv, WellNested
    <3>2. ~Pool
      BY <2>2 DEF CallerInv
    <3>3. reg = current
      BY <3>1, <3>2 DEF NestInv, WellNested
    <3>4. Stack(current) # {}
      <4>1. e \in Stack(current) \/ info[e].owner \in Stack(current)
        BY <3>1 DEF NestInv, WellNested, Stack, Entries
      <4> QED BY <4>1
    <3>5. Top(current) \in Stack(current)
      BY <1>1, <3>4, TopType
    <3>6. edge = Top(current)
      BY <2>2, <3>3, <3>4
    <3> HIDE DEF edge
    <3> QED BY <3>5, <3>6 DEF Stack, Entries
  <2>3. open = {} => edge = None
    <3> HIDE DEF reg
    <3> QED BY DEF Stack, Entries
  <2>4. session.txn = "caller" => do = "savepoint" /\ save # NoSave
    BY <1>1 DEF RegistryOK, NoSave
  <2> HIDE DEF do, edge, reg, save, fromPool
  <2>5. /\ frame'[t].at = "start" /\ frame'[t].edge = edge /\ frame'[t].do = do
        /\ frame'[t].save = save
        /\ \A u \in Task \ {t} : frame'[u] = frame[u]
    BY <1>1, <2>1 DEF Await, f, NoFrame
  <2>6. session.txn = "caller" => InCallers(t)'
    BY <2>1, <2>2, <2>3, <2>4, <2>5 DEF InCallers, IsTx
  <2> QED BY <1>1, <2>1, <2>5, <2>6, CallerGoes
<1>5. ASSUME NEW h \in open, Commit(t, h) \/ Rollback(t, h)
      PROVE  CallerStep
  <2> DEFINE f == [NoFrame EXCEPT !.h = h, !.reg = info[h].reg, !.edge = h]
  <2>1. PICK at \in {"commit", "rollback"}, do \in Verbs :
               /\ Finish(t, h, at, do)
               /\ info[h].save # NoSave => do \in {"release", "rollback to"}
    BY <1>5 DEF Commit, Rollback, Verbs
  <2>2. /\ Shut(After(h), {}) /\ Await(t, f, at, do, info[h].save) /\ f \in Frames
        /\ session' = session /\ IsTx(h)
    BY <1>3, <2>1 DEF Finish, others
  <2>3. at \in Labels \ {"idle", "start", "undo", "undoRelease"}
    BY <2>1 DEF Labels
  <2>4. session.txn = "caller" => do \notin {"begin", "commit", "rollback"}
    BY <2>1, <2>2 DEF CallerInv
  <2>5. open' \subseteq open /\ info' = info
    BY <2>2 DEF Shut
  <2> HIDE DEF f
  <2> QED BY <1>2, <2>2, <2>3, <2>4, <2>5
<1>6. ASSUME NEW h \in open, SpRelease(t, h) \/ SpRollback(t, h)
      PROVE  CallerStep
  <2> DEFINE f == [NoFrame EXCEPT !.h = h, !.reg = info[h].reg,
                                  !.edge = info[h].owner]
  <2>1. PICK at \in {"spRelease", "spRollback"}, do \in {"release", "rollback to"} :
               SpCall(t, h, at, do)
    BY <1>6 DEF SpRelease, SpRollback
  <2>2. /\ Await(t, f, at, do, info[h].save) /\ f \in Frames
        /\ UNCHANGED <<info, open, session>>
    BY <1>3, <2>1 DEF SpCall, registry, others
  <2>3. at \in Labels \ {"idle", "start", "undo", "undoRelease"}
    BY <2>1 DEF Labels
  <2> HIDE DEF f
  <2> QED BY <1>2, <2>1, <2>2, <2>3
<1>7. ASSUME NEW h \in open, Query(t, h) \/ \E n \in Name : Savepoint(t, h, n)
      PROVE  CallerStep
  <2> DEFINE f == [NoFrame EXCEPT !.h = h, !.reg = info[h].reg]
  <2>1. /\ \E at \in {"query", "savepoint"}, do \in {"query", "savepoint"} : \E save :
             Await(t, f, at, do, save)
        /\ UNCHANGED <<info, open, session>> /\ f \in Frames
    BY <1>3, <1>7 DEF Query, Savepoint, registry, others
  <2>2. {"query", "savepoint"} \subseteq Labels \ {"idle", "start", "undo", "undoRelease"}
    BY DEF Labels
  <2> HIDE DEF f
  <2> QED BY <1>2, <2>1, <2>2
<1> QED BY <1>4, <1>5, <1>6, <1>7 DEF Starts

\* An operation that goes on inside the caller's transaction leaves it open.
LEMMA CallerContinues ==
  ASSUME Pool \/ DirectInv, NestInv, CallerInv, NEW t \in Task, Continues(t)
  PROVE  CallerStep
<1> DEFINE f == frame[t]
<1>1. /\ f.at # "idle" /\ f \in Frames /\ FrameInv(t)
      /\ \A u \in Task \ {t} : frame[u].at = "idle"
      /\ frame \in [Task -> Frames] /\ f.edge \in Nat /\ f.h \in Nat
      /\ None \in Nat /\ open \subseteq Nat
  <2>1. f.at # "idle"
    BY DEF Continues, RecoverTo, RecoverToEnds, RecoverEnds, BeginOk,
       BeginInterrupted, BeginFailed, Undone, UndoEnds, Rolled, FinishOk,
       FinishFailed, SavepointOk, SavepointInterrupted, SavepointFailed, Dropped,
       SpReleaseOk, SpRollbackOk, SpFailed, QueryEnds, Resumes
  <2>2. f \in Frames /\ frame \in [Task -> Frames] /\ open \subseteq Nat
    BY OpenType DEF NestInv
  <2>3. f.edge \in Nat /\ f.h \in Nat /\ None \in Nat
    BY <2>2 DEF Frames, None
  <2> QED BY <2>1, <2>2, <2>3, Resumed
<1>2. session' \in {session, Fresh}
  BY DEF Continues, RecoverTo, RecoverToEnds, RecoverEnds, BeginOk,
     BeginInterrupted, BeginFailed, Undone, UndoEnds, Rolled, FinishOk,
     FinishFailed, SavepointOk, SavepointInterrupted, SavepointFailed, Dropped,
     SpReleaseOk, SpRollbackOk, SpFailed, QueryEnds, others, GiveBack
<1>3. CASE session.txn # "caller"
  <2>1. \/ Return(t)
        \/ \E at \in Labels \ {"idle"} : \E do, save : Await(t, f, at, do, save)
        \/ \E edge \in Nat : \E extra, owns, also : Recover(t, f, edge, extra, owns, also)
    <3>1. CASE \/ RecoverTo(t) \/ Undone(t) \/ Rolled(t) \/ SavepointInterrupted(t)
      BY <3>1 DEF RecoverTo, Undone, Rolled, SavepointInterrupted, Labels
    <3>2. CASE \/ RecoverToEnds(t) \/ RecoverEnds(t) \/ BeginOk(t) \/ FinishOk(t)
               \/ SavepointOk(t) \/ SavepointFailed(t) \/ Dropped(t) \/ SpReleaseOk(t)
               \/ SpRollbackOk(t) \/ QueryEnds(t)
      BY <3>2 DEF RecoverToEnds, RecoverEnds, BeginOk, FinishOk, SavepointOk,
         SavepointFailed, Dropped, SpReleaseOk, SpRollbackOk, QueryEnds
    <3>3. CASE BeginInterrupted(t)
      <4>1. "undo" \in Labels \ {"idle"}
        BY DEF Labels
      <4> QED BY <1>1, <3>3, <4>1 DEF BeginInterrupted
    <3>4. CASE BeginFailed(t) \/ UndoEnds(t) \/ FinishFailed(t) \/ SpFailed(t)
      BY <1>1, <3>4 DEF BeginFailed, UndoEnds, FinishFailed, SpFailed
    <3> QED BY <3>1, <3>2, <3>3, <3>4 DEF Continues
  <2> HIDE DEF f
  <2>2. /\ \A u \in Task \ {t} : frame'[u] = frame[u]
        /\ frame'[t].at = "idle" => frame'[t].do = "none"
    <3>1. Return(t) => /\ \A u \in Task \ {t} : frame'[u] = frame[u]
                       /\ frame'[t].do = "none"
      BY <1>1, ReturnFields
    <3>2. ASSUME NEW at \in Labels \ {"idle"}, NEW do, NEW save, Await(t, f, at, do, save)
          PROVE  /\ \A u \in Task \ {t} : frame'[u] = frame[u]
                 /\ frame'[t].at # "idle"
      BY <1>1, <3>2, AwaitFields
    <3>3. ASSUME NEW edge \in Nat, NEW extra, NEW owns, NEW also,
                 Recover(t, f, edge, extra, owns, also)
          PROVE  /\ \A u \in Task \ {t} : frame'[u] = frame[u]
                 /\ Return(t) \/ frame'[t].at # "idle"
      BY <1>1, <3>3, RecoverCases
    <3> QED BY <2>1, <3>1, <3>2, <3>3
  <2>3. session'.txn # "caller"
    BY <1>2, <1>3 DEF Fresh
  <2> QED BY <1>3, <2>2, <2>3, CallerAway
<1>4. CASE session.txn = "caller"
  <2>1. /\ ~leased /\ pooled = {} /\ ~f.pool /\ InCallers(t)
        /\ \A h \in open : IsTx(h) => info[h].save # NoSave
    BY <1>4 DEF CallerInv, DirectInv
  <2>2. session' = session
    BY <2>1 DEF Continues, RecoverTo, RecoverToEnds, RecoverEnds, BeginOk,
       BeginInterrupted, BeginFailed, Undone, UndoEnds, Rolled, FinishOk,
       FinishFailed, SavepointOk, SavepointInterrupted, SavepointFailed, Dropped,
       SpReleaseOk, SpRollbackOk, SpFailed, QueryEnds, others, GiveBack
  <2>3. ASSUME Return(t), open' \subseteq open, info' = info PROVE CallerStep
    <3>1. /\ frame'[t].at = "idle" /\ frame'[t].do = "none"
          /\ \A u \in Task \ {t} : frame'[u] = frame[u]
      BY <1>1, <2>3, ReturnFields
    <3>2. InCallers(t)'
      BY <3>1 DEF InCallers
    <3> QED BY <1>1, <2>2, <2>3, <3>1, <3>2, CallerGoes
  <2>4. CASE \/ RecoverToEnds(t) \/ RecoverEnds(t) \/ FinishOk(t)
             \/ SavepointFailed(t) \/ Dropped(t) \/ SpReleaseOk(t)
             \/ SpRollbackOk(t) \/ QueryEnds(t)
    <3>1. Return(t) /\ open' \subseteq open /\ info' = info
      BY <2>4 DEF RecoverToEnds, RecoverEnds, FinishOk, SavepointFailed, Dropped,
         SpReleaseOk, SpRollbackOk, QueryEnds, Shut, registry
    <3> QED BY <2>3, <3>1
  <2>5. ASSUME NEW at \in Labels \ {"idle", "start"}, NEW do, NEW save,
               Await(t, f, at, do, save), UNCHANGED <<info, open>>,
               do \notin {"begin", "commit", "rollback"},
               at \in {"undo", "undoRelease"} => f.at \in {"start", "undo"}
        PROVE  CallerStep
    <3> HIDE DEF f
    <3>1. /\ frame'[t].at = at /\ frame'[t].do = do /\ frame'[t].edge = f.edge
          /\ \A u \in Task \ {t} : frame'[u] = frame[u]
      BY <1>1, <2>5, AwaitFields, AwaitDo
    <3>2. InCallers(t)'
      BY <2>1, <2>5, <3>1 DEF InCallers, IsTx, f
    <3> QED BY <1>1, <2>2, <2>5, <3>1, <3>2, CallerGoes
  <2>6. CASE \/ RecoverTo(t) \/ Undone(t) \/ Rolled(t) \/ SavepointInterrupted(t)
             \/ BeginInterrupted(t)
    <3>1. f.at = "start" => f.save # NoSave
      BY <2>1 DEF InCallers
    <3>2. /\ UNCHANGED <<info, open>>
          /\ \E at \in Labels \ {"idle", "start"}, do \in {"release", "rollback to"} : \E save :
               /\ Await(t, f, at, do, save)
               /\ at \in {"undo", "undoRelease"} => f.at \in {"start", "undo"}
      <4>1. UNCHANGED <<info, open>>
        BY <2>6, <3>1 DEF RecoverTo, Undone, Rolled, SavepointInterrupted,
           BeginInterrupted, Resumes, registry
      <4>2. CASE RecoverTo(t) \/ Rolled(t) \/ SavepointInterrupted(t)
        <5>1. \E at \in {"recoverRelease", "rollbackRelease", "drop"} :
                Await(t, f, at, "release", f.save)
          BY <4>2 DEF RecoverTo, Rolled, SavepointInterrupted
        <5> QED BY <4>1, <5>1 DEF Labels
      <4>3. CASE Undone(t)
        BY <4>1, <4>3 DEF Undone, Resumes, Labels
      <4>4. CASE BeginInterrupted(t)
        <5>1. Await(t, f, "undo", "rollback to", f.save) /\ f.at = "start"
          BY <3>1, <4>4 DEF BeginInterrupted, Resumes
        <5> QED BY <4>1, <5>1 DEF Labels
      <4> QED BY <2>6, <4>2, <4>3, <4>4
    <3> QED BY <2>5, <3>2
  <2>7. CASE SavepointOk(t) \/ BeginOk(t)
    <3>1. PICK r \in Records : /\ info' = Append(info, r) /\ open' = open \union {made + 1}
                               /\ r.kind = "tx" => r.save # NoSave
      BY <1>1, <2>1, <2>7 DEF SavepointOk, BeginOk, Construct, Records, Frames, Kinds,
         InCallers, Resumes, None
    <3>2. /\ info \in Seq(Records) /\ made \in Nat /\ open \subseteq 1 .. made
          /\ made = Len(info)
      BY TypeParts, OpenType DEF NestInv, RegistryOK, made
    <3>3. \A h \in open' : IsTx(h)' => info'[h].save # NoSave
      BY <2>1, <3>1, <3>2 DEF IsTx
    <3>4. /\ frame'[t].at = "idle" /\ frame'[t].do = "none"
          /\ \A u \in Task \ {t} : frame'[u] = frame[u]
      BY <1>1, <2>7, ReturnFields DEF SavepointOk, BeginOk
    <3>5. \A u \in Task : frame'[u].at = "idle" /\ frame'[u].do = "none"
      BY <1>1, <3>4 DEF CallerInv
    <3>6. \A u \in Task : InCallers(u)'
      BY <3>5 DEF InCallers
    <3> QED BY <1>4, <2>2, <3>3, <3>5, <3>6 DEF CallerInv, CallerStep
  <2>8. CASE BeginFailed(t) \/ UndoEnds(t)
    <3>1. CASE Return(t) /\ UNCHANGED registry
      BY <2>3, <3>1 DEF registry
    <3>2. CASE Recover(t, f, f.edge, {}, FALSE, {})
      <4>1. \/ (f.edge = None /\ open = {})
            \/ (f.edge \in open /\ IsTx(f.edge))
        BY <2>1, <2>8 DEF InCallers, BeginFailed, UndoEnds, Resumes
      <4>2. f.edge \in open \union {None}
        BY <4>1
      <4>3. open = {} => Snapshot({}) = {}
        BY DEF Snapshot
      <4> HIDE DEF f
      <4>4. PICK extra, owns, also : /\ Recover(t, frame[t], f.edge, extra, owns, also)
                                     /\ extra = {} /\ ~owns
        BY <3>2 DEF f
      <4>5. \/ (f.edge = None /\ Snapshot(extra) = {} /\ ~owns)
            \/ (f.edge \in open /\ IsTx(f.edge))
        BY <4>1, <4>3, <4>4
      <4>6. \A u \in Task \ {t} : frame[u].at = "idle"
        BY <1>1
      <4> QED BY <2>2, <4>2, <4>4, <4>5, <4>6, CallerRecover
    <3>3. f.do # "begin"
      BY <2>1 DEF InCallers
    <3>4. CASE BeginFailed(t)
      <4>1. Recover(t, f, f.edge, {}, f.do = "begin", {})
        BY <2>1, <3>4 DEF BeginFailed
      <4>2. (f.do = "begin") = FALSE
        BY <3>3
      <4>3. Recover(t, f, f.edge, {}, FALSE, {})
        BY <4>1, <4>2
      <4> QED BY <3>2, <4>3
    <3>5. CASE UndoEnds(t)
      BY <3>1, <3>2, <3>5 DEF UndoEnds
    <3> QED BY <2>8, <3>4, <3>5
  <2>9. CASE FinishFailed(t)
    <3>1. Recover(t, f, f.h, {f.h}, FALSE, {}) /\ f.h \in open /\ IsTx(f.h)
      BY <1>1, <2>9 DEF FinishFailed, Resumes, FrameInv
    <3> QED BY <1>1, <2>2, <3>1, CallerRecover
  <2>10. CASE SpFailed(t)
    <3>1. /\ Recover(t, f, f.edge, {f.edge}, FALSE, After(f.h) \union {f.h})
          /\ f.h \in open /\ ~IsTx(f.h) /\ f.edge = info[f.h].owner
      BY <1>1, <2>10 DEF SpFailed, Resumes, FrameInv
    <3>2. f.edge \in open /\ IsTx(f.edge)
      BY <3>1 DEF NestInv, WellNested
    <3> QED BY <1>1, <2>2, <3>1, <3>2, CallerRecover
  <2> QED BY <2>4, <2>6, <2>7, <2>8, <2>9, <2>10 DEF Continues
<1> QED BY <1>3, <1>4

\* The server ends a transaction only for a commit or a raw rollback, and an
\* operation inside the caller's transaction sends neither.
LEMMA CallerOutside ==
  ASSUME NestInv, CallerInv,
         \/ \E t \in Task : Answer(t) \/ Cancel(t) \/ Lose(t)
         \/ CallerBegins \/ CallerEnds \/ UNCHANGED vars
  PROVE  CallerStep
<1>1. CASE \E t \in Task : Answer(t) \/ Cancel(t) \/ Lose(t)
  <2>1. PICK t \in Task : Answer(t) \/ Cancel(t) \/ Lose(t)
    BY <1>1
  <2>2. PICK s, ok : /\ Answered(t, s, ok)
                     /\ \/ s.txn = session.txn
                        \/ s.txn = "relq" /\ session.txn = "none"
                        \/ s.txn = "none" /\ frame[t].do \in {"commit", "rollback"}
    <3>1. session \in Sessions
      BY DEF NestInv, TypeOK
    <3>2. ASSUME NEW do, NEW n
          PROVE  LET s == Applied(session, do, n)
                 IN \/ s.txn = session.txn
                    \/ s.txn = "relq" /\ session.txn = "none"
                    \/ s.txn = "none" /\ do \in {"commit", "rollback"}
      BY <3>1 DEF Applied, Ended, Sessions
    <3>3. Failed(session).txn = session.txn
      BY <3>1 DEF Failed, Sessions
    <3>4. [session EXCEPT !.up = FALSE].txn = session.txn
      BY <3>1 DEF Sessions
    <3> QED BY <2>1, <3>2, <3>3, <3>4 DEF Answer, Cancel, Lose
  <2>3. PICK r : frame' = [frame EXCEPT ![t].reply = r]
    BY <2>2 DEF Answered
  <2>4. frame \in [Task -> Frames] /\ session' = s /\ UNCHANGED <<info, open>>
    BY <2>2, OpenType DEF NestInv, Answered, registry
  <2>5. ASSUME NEW u \in Task
        PROVE  /\ frame'[u].at = frame[u].at /\ frame'[u].save = frame[u].save
               /\ frame'[u].do = frame[u].do /\ frame'[u].edge = frame[u].edge
    <3>1. frame[u] \in Frames /\ frame[t] \in Frames
      BY <2>4
    <3>2. frame'[u] = IF u = t THEN [frame[t] EXCEPT !.reply = r] ELSE frame[u]
      BY <2>3, <2>4
    <3> QED BY <3>1, <3>2 DEF Frames
  <2>6. session.txn = "caller" => session'.txn = "caller"
    BY <2>2, <2>4 DEF CallerInv, InCallers
  <2>7. session'.txn = "caller" => session.txn = "caller"
    BY <2>2, <2>4
  <2>8. \A u \in Task : InCallers(u)' = InCallers(u)
    BY <2>4, <2>5 DEF InCallers, IsTx
  <2> QED BY <2>4, <2>5, <2>6, <2>7, <2>8 DEF CallerInv, CallerStep, IsTx
<1>2. CASE CallerBegins
  <2>1. /\ ~Pool /\ open' = {} /\ frame' = frame
        /\ \A u \in Task : frame[u].at = "idle"
        /\ session.txn = "none"
    BY <1>2 DEF CallerBegins, registry, Quiet
  <2>2. \A u \in Task : frame'[u].at = "idle" /\ frame'[u].do = "none"
    BY <2>1 DEF CallerInv
  <2>3. \A u \in Task : InCallers(u)'
    BY <2>2 DEF InCallers
  <2> QED BY <2>1, <2>2, <2>3 DEF CallerInv, CallerStep
<1>3. CASE CallerEnds
  <2>1. ~Pool /\ frame' = frame /\ session'.txn = "none"
    <3>1. session \in Sessions
      BY DEF NestInv, TypeOK
    <3> QED BY <1>3, <3>1 DEF CallerEnds, Ended, Sessions
  <2> QED BY <2>1 DEF CallerInv, CallerStep
<1>4. CASE UNCHANGED vars
  BY <1>4 DEF CallerInv, CallerStep, InCallers, IsTx, vars, registry, others
<1> QED BY <1>1, <1>2, <1>3, <1>4

\* With one operation at a time, for any names, bounds and faults: only the
\* caller ends a transaction that the caller opened.  Inside it begin() makes
\* savepoints, and _recover_connection finds one to go back to or does nothing.
THEOREM CallerWorkSafeCorrect == ASSUME Serial PROVE Spec => CallerWorkSafe
<1> DEFINE Inv  == NestInv /\ CallerInv /\ (Pool \/ DirectInv)
           Safe == session.txn = "caller" /\ session'.txn # "caller" => frame' = frame
<1>1. Init => Inv
  <2> SUFFICES ASSUME Init PROVE Inv
    OBVIOUS
  <2>1. NestInv
    BY NestInit
  <2>2. DirectInv /\ session.txn = "none" /\ \A t \in Task : frame[t].do = "none"
    BY DEF Init, DirectInv, Fresh, NoFrame
  <2> QED BY <2>1, <2>2 DEF CallerInv
<1>2. Inv /\ TypeOK' /\ [Next]_vars => Inv' /\ Safe
  <2> SUFFICES ASSUME Inv, TypeOK', [Next]_vars PROVE Inv' /\ Safe
    OBVIOUS
  <2>1. NestInv'
    BY NestNext DEF NestStep, NestInv
  <2>2. CallerStep
    BY CallerStarts, CallerContinues, CallerOutside DEF Next
  <2>3. Pool \/ DirectInv'
    <3>1. TypeOK
      BY DEF NestInv
    <3> QED BY <3>1, DirectStarts, DirectContinues, DirectOutside DEF Next
  <2> QED BY <2>1, <2>2, <2>3 DEF CallerStep
<1>3. Spec => []TypeOK
  BY TypeCorrect
<1>4. Spec => [][Safe]_vars
  BY <1>1, <1>2, <1>3, PTL DEF Spec
<1>5. Safe <=> (session.txn = "caller" /\ session'.txn # "caller" => frame' = frame)
  OBVIOUS
<1> QED BY <1>4, <1>5, PTL DEF CallerWorkSafe
=============================================================================
