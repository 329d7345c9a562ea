------------------------ MODULE PgTransactionsProofs ------------------------
(***************************************************************************)
(* Proofs about PgTransactions, for every number of tasks, handles, names  *)
(* and faults, serial or concurrent, pooled or direct.                     *)
(***************************************************************************)
EXTENDS PgTransactions, WellFoundedInduction, TLAPS

\* A nonempty bounded set of numbers has a greatest element: the top of a
\* registry's stack and the newest savepoint of a name exist.
LEMMA MaxExists ==
  ASSUME NEW n \in Nat, NEW S \in SUBSET (1 .. n), S # {}
  PROVE  \E m \in S : \A k \in S : k <= m
<1> DEFINE T == {n - k : k \in S}
<1>1. T \subseteq Nat /\ T # {}
  <2>1. ASSUME NEW x \in T PROVE x \in Nat
    OBVIOUS
  <2>2. PICK k \in S : TRUE
    OBVIOUS
  <2>3. n - k \in T
    OBVIOUS
  <2> QED BY <2>1, <2>3
<1>2. PICK x \in T : \A y \in T : ~(<<y, x>> \in OpToRel(<, Nat))
  <2> HIDE DEF T
  <2> QED BY <1>1, NatLessThanWellFounded, WFMin
<1>3. PICK m \in S : x = n - m
  OBVIOUS
<1>4. ASSUME NEW k \in S PROVE k <= m
  <2>1. n - k \in T /\ n - k \in Nat /\ x \in Nat
    BY <1>1
  <2>2. ~(n - k < x)
    BY <1>2, <2>1 DEF OpToRel
  <2> QED BY <1>3, <2>2
<1> QED BY <1>4

-----------------------------------------------------------------------------
(* What the building blocks of the actions do to the types.                *)

\* The variables of the registry and of the handles have their types.
RegistryOK ==
  /\ info \in Seq(Records)
  /\ open \subseteq DOMAIN info
  /\ pooled \subseteq DOMAIN info
  /\ \A h \in DOMAIN info : info[h].owner <= made
  /\ names \subseteq Nat \X Saves
  /\ current \in Nat /\ regs \in Nat
  /\ minted \in 0 .. MaxBegins

\* The frames have their type and point at handles that exist.
FramesOK ==
  /\ frame \in [Task -> Frames]
  /\ \A t \in Task : frame[t].h <= made /\ frame[t].edge <= made

\* The server, the pool and the ghosts have their types.
OthersOK ==
  /\ leased \in BOOLEAN
  /\ session \in Sessions
  /\ faults \in 0 .. MaxFaults
  /\ acked \subseteq Nat /\ durable \subseteq Nat

\* The three parts are the type invariant.
LEMMA TypeParts == TypeOK <=> RegistryOK /\ FramesOK /\ OthersOK
BY DEF TypeOK, RegistryOK, FramesOK, OthersOK

\* An idle frame is a frame.
LEMMA NoFrameType == NoFrame \in Frames /\ NoFrame.h = 0 /\ NoFrame.edge = 0
BY ConstantsAssumption
   DEF ConstantsAssumption, NoFrame, Frames, Labels, Verbs, Replies, Saves, NoSave, None

\* Handles already constructed have typed records.
LEMMA InfoType ==
  ASSUME RegistryOK, NEW h \in DOMAIN info
  PROVE  /\ info[h] \in Records /\ info[h].owner \in Nat /\ info[h].owner <= made
         /\ info[h].save \in Saves /\ info[h].reg \in Nat
         /\ h \in Nat /\ h # 0 /\ h <= made /\ made \in Nat
<1>1. DOMAIN info = 1 .. made /\ made \in Nat /\ info \in [1 .. made -> Records]
  BY DEF RegistryOK, made
<1>2. info[h] \in Records
  BY <1>1
<1>3. info[h].owner <= made
  BY DEF RegistryOK
<1> QED BY <1>1, <1>2, <1>3 DEF Records

\* Closing handles keeps the registry's types and constructs nothing.
LEMMA ShutType ==
  ASSUME RegistryOK, NEW S, NEW C, Shut(S, C)
  PROVE  /\ info' = info /\ open' \subseteq open
         /\ names' \subseteq names /\ current' \in Nat
         /\ regs' = regs /\ minted' = minted
BY DEF RegistryOK, Shut, None

\* A step that constructs no handle and shrinks the registry keeps its types.
LEMMA RegistryShrinks ==
  ASSUME RegistryOK,
         info' = info, open' \subseteq open, pooled' \subseteq pooled,
         names' \subseteq Nat \X Saves, current' \in Nat, regs' \in Nat,
         minted' \in 0 .. MaxBegins
  PROVE  RegistryOK'
BY DEF RegistryOK, made

\* Sending a command keeps the frames' types.
LEMMA AwaitType ==
  ASSUME FramesOK, made' \in Nat, made \in Nat, made <= made', NEW t \in Task,
         NEW f \in Frames, f.h <= made, f.edge <= made,
         NEW at \in Labels, NEW do \in Verbs, NEW save \in Saves,
         Await(t, f, at, do, save)
  PROVE  FramesOK'
<1> DEFINE g == [f EXCEPT !.at = at, !.do = do, !.save = save,
              !.reply = IF \E u \in Task \ {t} : frame[u].reply = "waiting"
                        THEN "refused" ELSE "waiting"]
<1>1. g \in Frames /\ g.h = f.h /\ g.edge = f.edge
  BY DEF Frames, Replies
<1>2. frame' = [frame EXCEPT ![t] = g]
  BY DEF Await
<1> HIDE DEF g
<1>3. frame' \in [Task -> Frames]
  BY <1>1, <1>2 DEF FramesOK
<1>4. ASSUME NEW u \in Task
      PROVE  frame'[u].h <= made' /\ frame'[u].edge <= made'
  <2>1. CASE u = t
    BY <1>1, <1>2, <2>1 DEF FramesOK, Frames
  <2>2. CASE u # t
    BY <1>2, <2>2 DEF FramesOK, Frames
  <2> QED BY <2>1, <2>2
<1> QED BY <1>3, <1>4 DEF FramesOK

\* So does ending an operation.
LEMMA ReturnType ==
  ASSUME FramesOK, made' \in Nat, made \in Nat, made <= made', NEW t \in Task,
         Return(t)
  PROVE  FramesOK'
<1>1. frame' = [frame EXCEPT ![t] = NoFrame]
  BY DEF Return
<1>2. frame' \in [Task -> Frames]
  BY <1>1, NoFrameType DEF FramesOK
<1>3. ASSUME NEW u \in Task
      PROVE  frame'[u].h <= made' /\ frame'[u].edge <= made'
  <2>1. CASE u = t
    BY <1>1, <2>1, NoFrameType DEF FramesOK
  <2>2. CASE u # t
    BY <1>1, <2>2 DEF FramesOK, Frames
  <2> QED BY <2>1, <2>2
<1> QED BY <1>2, <1>3 DEF FramesOK

\* Recovery, whichever way it goes, keeps the types.
LEMMA RecoverType ==
  ASSUME RegistryOK, FramesOK, pooled' = pooled, NEW t \in Task,
         NEW f \in Frames, f.h <= made, f.edge <= made,
         NEW edge \in Nat, edge <= made, NEW extra, NEW owns, NEW also,
         Recover(t, f, edge, extra, owns, also)
  PROVE  RegistryOK' /\ FramesOK'
<1>0. made \in Nat
  BY DEF RegistryOK, made
<1>1. CASE Return(t) /\ UNCHANGED registry
  <2>1. RegistryOK' /\ made' = made
    BY <1>1 DEF registry, RegistryOK, made
  <2> QED BY <1>0, <1>1, <2>1, ReturnType
<1>2. CASE Nested(edge) /\ \E S : RecoverBoundary(t, f, edge, S)
  <2>1. PICK S : RecoverBoundary(t, f, edge, S)
    BY <1>2
  <2>2. Shut(S, {})
    BY <2>1 DEF RecoverBoundary
  <2>3. RegistryOK' /\ made' = made
    <3>1. info' = info /\ open' \subseteq open /\ names' \subseteq names
          /\ current' \in Nat /\ regs' = regs /\ minted' = minted
      BY <2>2, ShutType
    <3> QED BY <3>1, RegistryShrinks DEF RegistryOK, made
  <2>4. edge \in DOMAIN info
    BY <1>0, <1>2 DEF Nested, None, RegistryOK, made
  <2> DEFINE g == [f EXCEPT !.edge = edge]
  <2>5. g \in Frames /\ g.h = f.h /\ g.edge = edge
    BY DEF Frames
  <2>6. "recoverTo" \in Labels /\ "rollback to" \in Verbs
    BY DEF Labels, Verbs
  <2>7. Await(t, g, "recoverTo", "rollback to", info[edge].save)
    BY <2>1 DEF RecoverBoundary
  <2> HIDE DEF g
  <2>8. info[edge].save \in Saves
    BY <2>4, InfoType
  <2>9. made' \in Nat /\ made <= made' /\ g.h <= made /\ g.edge <= made
    BY <1>0, <2>3, <2>5
  <2>10. FramesOK'
    BY <1>0, <2>5, <2>6, <2>7, <2>8, <2>9, AwaitType
  <2> QED BY <2>3, <2>10
<1>3. CASE \E S : RecoverAll(t, f, S, also)
  <2>1. PICK S : RecoverAll(t, f, S, also)
    BY <1>3
  <2>2. \E S1, S2 : Shut(S1, S2)
    BY <2>1 DEF RecoverAll
  <2>3. RegistryOK' /\ made' = made
    <3>1. info' = info /\ open' \subseteq open /\ names' \subseteq names
          /\ current' \in Nat /\ regs' = regs /\ minted' = minted
      BY <2>2, ShutType
    <3> QED BY <3>1, RegistryShrinks DEF RegistryOK, made
  <2>4. "recover" \in Labels /\ "rollback" \in Verbs /\ NoSave \in Saves
    BY ConstantsAssumption
       DEF ConstantsAssumption, Labels, Verbs, NoSave, Saves
  <2>5. Await(t, f, "recover", "rollback", NoSave)
    BY <2>1 DEF RecoverAll
  <2> QED BY <1>0, <2>3, <2>4, <2>5, AwaitType
<1> QED BY <1>1, <1>2, <1>3 DEF Recover

-----------------------------------------------------------------------------
(* The server.                                                             *)

\* The newest savepoint of a name that exists is a position in the stack.
LEMMA NewestType ==
  ASSUME NEW s \in Sessions, NEW n, Has(s, n)
  PROVE  Newest(s, n) \in 1 .. Len(s.saves)
<1> DEFINE S == {i \in DOMAIN s.saves : s.saves[i] = n}
<1>1. s.saves \in Seq(Saves) /\ DOMAIN s.saves = 1 .. Len(s.saves)
      /\ Len(s.saves) \in Nat
  BY DEF Sessions
<1>2. S # {} /\ S \in SUBSET (1 .. Len(s.saves))
  BY <1>1 DEF Has
<1>3. PICK m \in S : \A k \in S : k <= m
  BY <1>1, <1>2, MaxExists
<1>4. /\ m \in DOMAIN s.saves /\ s.saves[m] = n
      /\ \A j \in DOMAIN s.saves : s.saves[j] = n => j <= m
  BY <1>3
<1>5. Newest(s, n) \in DOMAIN s.saves
  BY <1>4 DEF Newest
<1> QED BY <1>1, <1>5

\* The effect of an accepted command is a session again.
LEMMA AppliedType ==
  ASSUME NEW s \in Sessions, NEW do \in Verbs, NEW n \in Saves,
         Accepted(s, do, n)
  PROVE  Applied(s, do, n) \in Sessions
<1>1. s.saves \in Seq(Saves) /\ Len(s.saves) \in Nat
  BY DEF Sessions
<1>2. CASE do = "begin"
  BY <1>2 DEF Applied, Sessions
<1>3. CASE do \in {"commit", "rollback"}
  <2>1. <<>> \in Seq(Saves)
    OBVIOUS
  <2>2. Ended(s) \in Sessions
    BY <2>1 DEF Sessions, Ended
  <2> QED BY <1>3, <2>2 DEF Applied
<1>4. CASE do = "savepoint"
  <2>1. Append(s.saves, n) \in Seq(Saves)
    BY <1>1
  <2> QED BY <1>4, <2>1 DEF Applied, Sessions
<1>5. CASE do = "release"
  <2>1. Newest(s, n) \in 1 .. Len(s.saves)
    BY <1>5, NewestType DEF Accepted
  <2>2. SubSeq(s.saves, 1, Newest(s, n) - 1) \in Seq(Saves)
    BY <1>1, <2>1
  <2> QED BY <1>5, <2>2 DEF Applied, Sessions
<1>6. CASE do = "rollback to"
  <2>1. Newest(s, n) \in 1 .. Len(s.saves)
    BY <1>6, NewestType DEF Accepted
  <2>2. SubSeq(s.saves, 1, Newest(s, n)) \in Seq(Saves)
    BY <1>1, <2>1
  <2> QED BY <1>6, <2>2 DEF Applied, Sessions
<1>7. CASE do \in {"none", "query"}
  BY <1>7 DEF Applied
<1> QED BY <1>2, <1>3, <1>4, <1>5, <1>6, <1>7 DEF Verbs

\* Where a reply leaves the session, the frames keep their types.
LEMMA AnsweredType ==
  ASSUME TypeOK, NEW t \in Task, NEW s \in Sessions, NEW ok \in BOOLEAN,
         Answered(t, s, ok)
  PROVE  RegistryOK' /\ FramesOK' /\ leased' \in BOOLEAN /\ session' \in Sessions
         /\ acked' \subseteq Nat
<1>1. UNCHANGED <<info, open, names, current, regs, minted, pooled, leased, acked>>
  BY DEF Answered, registry
<1>2. RegistryOK' /\ made' = made
  BY <1>1 DEF TypeOK, RegistryOK, made
<1> DEFINE r == IF ok THEN "ok" ELSE "error"
<1>3. r \in Replies /\ frame' = [frame EXCEPT ![t].reply = r]
  BY DEF Answered, Replies
<1> HIDE DEF r
<1>4. FramesOK'
  BY <1>2, <1>3 DEF FramesOK, Frames, TypeOK
<1> QED BY <1>1, <1>2, <1>4 DEF Answered, TypeOK

\* The top of a nonempty stack is a handle.
LEMMA TopType ==
  ASSUME RegistryOK, NEW r, Stack(r) # {}
  PROVE  Top(r) \in Stack(r) /\ Top(r) \in DOMAIN info
<1>1. DOMAIN info = 1 .. made /\ made \in Nat
  BY DEF RegistryOK, made
<1>2. Stack(r) \in SUBSET (1 .. made)
  BY <1>1 DEF Stack, Entries, RegistryOK
<1>3. \E e \in Stack(r) : \A d \in Stack(r) : d <= e
  BY <1>1, <1>2, MaxExists
<1>4. Top(r) \in Stack(r)
  BY <1>3 DEF Top
<1> QED BY <1>1, <1>2, <1>4

\* Constructing a handle keeps the registry's types.
LEMMA ConstructType ==
  ASSUME RegistryOK, NEW kind \in Kinds, NEW owner \in Nat, owner <= made,
         NEW save \in Saves, NEW reg \in Nat, Construct(kind, owner, save, reg)
  PROVE  /\ info' \in Seq(Records) /\ made' = made + 1 /\ made \in Nat
         /\ DOMAIN info' = 1 .. made + 1
         /\ open' \subseteq DOMAIN info' /\ pooled \subseteq DOMAIN info'
         /\ \A h \in DOMAIN info' : info'[h].owner <= made'
<1> DEFINE r == [kind |-> kind, owner |-> owner, save |-> save, reg |-> reg]
<1>1. r \in Records /\ r.owner = owner
  BY DEF Records
<1>2. info' = Append(info, r)
  BY DEF Construct
<1> HIDE DEF r
<1>3. /\ info \in Seq(Records) /\ made = Len(info) /\ made \in Nat
      /\ DOMAIN info = 1 .. made
  BY DEF RegistryOK, made
<1>4. info' \in Seq(Records) /\ Len(info') = made + 1
      /\ DOMAIN info' = 1 .. made + 1
  BY <1>1, <1>2, <1>3
<1>5. made' = made + 1
  BY <1>4 DEF made
<1>6. open' \subseteq DOMAIN info' /\ pooled \subseteq DOMAIN info'
  BY <1>3, <1>4 DEF RegistryOK, Construct
<1>7. ASSUME NEW h \in DOMAIN info' PROVE info'[h].owner <= made'
  <2>1. CASE h \in DOMAIN info
    <3>1. info'[h] = info[h]
      BY <1>1, <1>2, <1>3, <2>1
    <3>2. info[h].owner <= made /\ info[h].owner \in Nat
      BY <2>1, InfoType
    <3> QED BY <1>3, <1>5, <3>1, <3>2
  <2>2. CASE h = made + 1
    <3>1. info'[h] = r
      BY <1>1, <1>2, <1>3, <2>2
    <3> QED BY <1>1, <1>3, <1>5, <3>1
  <2> QED BY <1>3, <1>4, <2>1, <2>2
<1> QED BY <1>3, <1>4, <1>5, <1>6, <1>7

\* What TypeOK says of the frame of a task.
LEMMA FrameType ==
  ASSUME RegistryOK, FramesOK, NEW t \in Task
  PROVE  /\ frame[t] \in Frames /\ frame[t].h <= made /\ frame[t].edge <= made
         /\ frame[t].h \in Nat /\ frame[t].edge \in Nat /\ frame[t].reg \in Nat
         /\ frame[t].save \in Saves /\ frame[t].do \in Verbs
         /\ frame[t].pool \in BOOLEAN
BY DEF FramesOK, Frames

\* A step that leaves the registry alone.
LEMMA RegistryStays ==
  ASSUME RegistryOK, UNCHANGED registry, pooled' \subseteq pooled
  PROVE  RegistryOK' /\ made' = made /\ made \in Nat
BY DEF RegistryOK, registry, made

\* A step that only closes handles.
LEMMA RegistryShuts ==
  ASSUME RegistryOK, NEW S, NEW C, Shut(S, C), pooled' \subseteq pooled
  PROVE  RegistryOK' /\ made' = made /\ made \in Nat
<1>1. info' = info /\ open' \subseteq open /\ names' \subseteq names
      /\ current' \in Nat /\ regs' = regs /\ minted' = minted
  BY ShutType
<1> QED BY <1>1, RegistryShrinks DEF RegistryOK, made

\* Sending the next command of the same operation.
LEMMA AwaitNext ==
  ASSUME RegistryOK, FramesOK, UNCHANGED <<registry, others>>, NEW t \in Task,
         NEW at \in Labels, NEW do \in Verbs, NEW save \in Saves,
         NEW f \in Frames, f.h <= made, f.edge <= made, Await(t, f, at, do, save)
  PROVE  RegistryOK' /\ FramesOK'
<1>1. RegistryOK' /\ made' = made /\ made \in Nat
  BY RegistryStays DEF others
<1>2. made' \in Nat /\ made <= made'
  BY <1>1
<1> QED BY <1>1, <1>2, AwaitType

\* Ending an operation that leaves the registry alone.
LEMMA ReturnNext ==
  ASSUME RegistryOK, FramesOK, UNCHANGED registry, pooled' \subseteq pooled,
         NEW t \in Task, Return(t)
  PROVE  RegistryOK' /\ FramesOK'
<1>1. RegistryOK' /\ made' = made /\ made \in Nat
  BY RegistryStays
<1>2. made' \in Nat /\ made <= made'
  BY <1>1
<1> QED BY <1>1, <1>2, ReturnType

\* The server's side and the ghosts when a step leaves them alone.
LEMMA OthersStay ==
  ASSUME OthersOK, UNCHANGED <<leased, session, faults, acked, durable>>
  PROVE  OthersOK'
BY DEF OthersOK

\* Giving a connection back to the pool.
LEMMA GiveBackType ==
  ASSUME OthersOK, NEW owner, GiveBack(owner)
  PROVE  leased' \in BOOLEAN /\ session' \in Sessions
<1>1. Fresh \in Sessions
  <2>1. <<>> \in Seq(Saves)
    OBVIOUS
  <2> QED BY <2>1 DEF Fresh, Sessions
<1> QED BY <1>1 DEF GiveBack, OthersOK

-----------------------------------------------------------------------------
(* Every action keeps the types.                                           *)

\* Recovery that leaves everything else alone: the end of a failed operation.
LEMMA RecoverNext ==
  ASSUME RegistryOK, FramesOK, OthersOK, NEW t \in Task,
         NEW edge \in Nat, edge <= made, NEW extra, NEW owns, NEW also,
         Recover(t, frame[t], edge, extra, owns, also), UNCHANGED pooled
  PROVE  RegistryOK' /\ FramesOK'
<1>1. /\ frame[t] \in Frames /\ frame[t].h <= made /\ frame[t].edge <= made
  BY FrameType
<1> QED BY <1>1, RecoverType

\* The continuations of recovery.
LEMMA RecoveryTypes ==
  ASSUME RegistryOK, FramesOK, OthersOK, NEW t \in Task,
         RecoverTo(t) \/ RecoverToEnds(t) \/ RecoverEnds(t)
  PROVE  RegistryOK' /\ FramesOK' /\ OthersOK'
<1> USE FrameType
<1>1. CASE RecoverTo(t)
  <2>1. "recoverRelease" \in Labels /\ "release" \in Verbs
    BY DEF Labels, Verbs
  <2>2. RegistryOK' /\ FramesOK'
    BY <1>1, <2>1, AwaitNext DEF RecoverTo
  <2>3. OthersOK'
    BY <1>1, OthersStay DEF RecoverTo, others
  <2> QED BY <2>2, <2>3
<1>2. CASE RecoverToEnds(t)
  <2>1. RegistryOK' /\ FramesOK'
    BY <1>2, ReturnNext DEF RecoverToEnds, others
  <2>2. OthersOK'
    BY <1>2, OthersStay DEF RecoverToEnds, others
  <2> QED BY <2>1, <2>2
<1>3. CASE RecoverEnds(t)
  <2>1. RegistryOK' /\ FramesOK'
    BY <1>3, ReturnNext DEF RecoverEnds
  <2>2. leased' \in BOOLEAN /\ session' \in Sessions
    BY <1>3, GiveBackType DEF RecoverEnds
  <2>3. OthersOK'
    BY <1>3, <2>2 DEF RecoverEnds, OthersOK
  <2> QED BY <2>1, <2>3
<1> QED BY <1>1, <1>2, <1>3

\* begin() sends its start statement.
LEMMA BeginType ==
  ASSUME RegistryOK, FramesOK, OthersOK, NEW t \in Task,
         NEW h \in open \union {None}, Begin(t, h)
  PROVE  RegistryOK' /\ FramesOK' /\ OthersOK'
<1> DEFINE inside   == session.txn # "none"
           fromPool == Pool /\ h = None /\ ~leased
           save     == IF inside THEN minted + 1 ELSE NoSave
           reg      == IF h # None THEN info[h].reg
                       ELSE IF current # None /\ ~fromPool THEN current
                       ELSE regs + 1
           edge     == IF inside /\ Stack(reg) # {} THEN Top(reg) ELSE None
           f        == [NoFrame EXCEPT !.h = h, !.reg = reg, !.pool = fromPool,
                                       !.edge = edge]
<1>1. /\ inside => minted < MaxBegins
      /\ minted' = IF inside THEN minted + 1 ELSE minted
      /\ regs' = IF reg > regs THEN reg ELSE regs
      /\ current' = IF h = None THEN reg ELSE current
      /\ leased' = (leased \/ fromPool)
      /\ Await(t, f, "start", IF inside THEN "savepoint" ELSE "begin", save)
      /\ UNCHANGED <<info, open, names, pooled, session, faults, acked, durable>>
  BY DEF Begin
<1>2. fromPool \in BOOLEAN
  BY ConstantsAssumption DEF ConstantsAssumption, OthersOK
<1>3. /\ made \in Nat /\ DOMAIN info = 1 .. made /\ h \in Nat /\ h <= made
      /\ h # None => h \in DOMAIN info
  BY DEF RegistryOK, made, None
<1>4. reg \in Nat
  <2>1. CASE h # None
    BY <1>3, <2>1, InfoType
  <2>2. CASE h = None
    BY <2>2 DEF RegistryOK
  <2> QED BY <2>1, <2>2
<1>5. edge \in Nat /\ edge <= made
  <2> HIDE DEF reg, inside
  <2> QED BY <1>3, TopType, InfoType DEF None
<1>6. minted' \in 0 .. MaxBegins /\ save \in Saves
  BY <1>1, ConstantsAssumption
     DEF ConstantsAssumption, RegistryOK, Saves, NoSave
<1>7. (IF inside THEN "savepoint" ELSE "begin") \in Verbs /\ "start" \in Labels
  BY DEF Verbs, Labels
<1>8. f \in Frames /\ f.h = h /\ f.edge = edge
  <2> HIDE DEF reg, edge, fromPool
  <2> QED BY <1>2, <1>3, <1>4, <1>5, NoFrameType DEF Frames
<1> HIDE DEF f, edge, reg, save, fromPool, inside
<1>9. RegistryOK' /\ made' = made
  BY <1>1, <1>4, <1>6 DEF RegistryOK, made
<1>10. made' \in Nat /\ made <= made' /\ f.h <= made /\ f.edge <= made
  BY <1>3, <1>5, <1>8, <1>9
<1>11. FramesOK'
  BY <1>1, <1>3, <1>6, <1>7, <1>8, <1>10, AwaitType
<1>12. OthersOK'
  BY <1>1, <1>2 DEF OthersOK
<1> QED BY <1>9, <1>11, <1>12

\* The continuations of begin().
LEMMA BeginEndsType ==
  ASSUME RegistryOK, FramesOK, OthersOK, NEW t \in Task,
         \/ BeginOk(t) \/ BeginInterrupted(t) \/ BeginFailed(t)
         \/ Undone(t) \/ UndoEnds(t)
  PROVE  RegistryOK' /\ FramesOK' /\ OthersOK'
<1> USE FrameType
<1>1. CASE BeginOk(t)
  <2>1. /\ info' \in Seq(Records) /\ made' = made + 1 /\ made \in Nat
        /\ DOMAIN info' = 1 .. made + 1
        /\ open' \subseteq DOMAIN info' /\ pooled \subseteq DOMAIN info'
        /\ \A h \in DOMAIN info' : info'[h].owner <= made'
    <3>1. made \in Nat /\ None \in Nat /\ None <= made /\ "tx" \in Kinds
      BY DEF RegistryOK, made, None, Kinds
    <3>2. Construct("tx", None, frame[t].save, frame[t].reg)
      BY <1>1 DEF BeginOk
    <3> QED BY <3>1, <3>2, ConstructType
  <2>2. pooled' \subseteq DOMAIN info'
    BY <1>1, <2>1 DEF BeginOk
  <2>3. names' \subseteq Nat \X Saves
    BY <1>1 DEF BeginOk, RegistryOK
  <2>4. current' \in Nat /\ regs' \in Nat /\ minted' \in 0 .. MaxBegins
    BY <1>1 DEF BeginOk, RegistryOK
  <2>5. RegistryOK'
    BY <2>1, <2>2, <2>3, <2>4 DEF RegistryOK
  <2>6. made' \in Nat /\ made <= made'
    BY <2>1
  <2>7. FramesOK'
    BY <1>1, <2>1, <2>6, ReturnType DEF BeginOk
  <2>8. OthersOK'
    BY <1>1, OthersStay DEF BeginOk
  <2> QED BY <2>5, <2>7, <2>8
<1>2. CASE BeginInterrupted(t)
  <2>1. UNCHANGED <<pooled, leased, session, acked, durable>>
        /\ faults' \in 0 .. MaxFaults
    <3>1. UNCHANGED <<pooled, leased, session, acked, durable>>
      BY <1>2 DEF BeginInterrupted
    <3>2. (faults < MaxFaults /\ faults' = faults + 1) \/ faults' = faults
      BY <1>2 DEF BeginInterrupted
    <3>3. faults \in 0 .. MaxFaults /\ MaxFaults \in Nat
      BY ConstantsAssumption DEF ConstantsAssumption, OthersOK
    <3>4. faults' \in 0 .. MaxFaults
      BY <3>2, <3>3
    <3> QED BY <3>1, <3>4
  <2>2. CASE Recover(t, frame[t], None, {}, TRUE, {})
    <3>1. None \in Nat /\ None <= made
      BY DEF RegistryOK, made, None
    <3> QED BY <2>1, <2>2, <3>1, RecoverNext DEF OthersOK
  <2>3. CASE /\ Await(t, frame[t], "undo", "rollback to", frame[t].save)
             /\ UNCHANGED registry
    <3>1. "undo" \in Labels /\ "rollback to" \in Verbs
      BY DEF Labels, Verbs
    <3>2. RegistryOK' /\ made' = made /\ made \in Nat
      BY <2>1, <2>3, RegistryStays
    <3>3. made' \in Nat /\ made <= made'
      BY <3>2
    <3>4. FramesOK'
      BY <2>3, <3>1, <3>2, <3>3, AwaitType
    <3> QED BY <2>1, <3>2, <3>4 DEF OthersOK
  <2> QED BY <1>2, <2>2, <2>3 DEF BeginInterrupted
<1>3. CASE BeginFailed(t)
  <2>1. CASE GiveBack(TRUE) /\ Return(t) /\ UNCHANGED registry
    <3>1. RegistryOK' /\ FramesOK'
      BY <1>3, <2>1, ReturnNext DEF BeginFailed
    <3>2. leased' \in BOOLEAN /\ session' \in Sessions
      BY <2>1, GiveBackType
    <3> QED BY <1>3, <3>1, <3>2 DEF BeginFailed, OthersOK
  <2>2. CASE /\ Recover(t, frame[t], frame[t].edge, {}, frame[t].do = "begin", {})
             /\ UNCHANGED <<leased, session>>
    <3>1. RegistryOK' /\ FramesOK'
      BY <1>3, <2>2, RecoverNext DEF BeginFailed
    <3> QED BY <1>3, <2>2, <3>1 DEF BeginFailed, OthersOK
  <2> QED BY <1>3, <2>1, <2>2 DEF BeginFailed
<1>4. CASE Undone(t)
  <2>1. "undoRelease" \in Labels /\ "release" \in Verbs
    BY DEF Labels, Verbs
  <2>2. RegistryOK' /\ FramesOK'
    BY <1>4, <2>1, AwaitNext DEF Undone
  <2>3. OthersOK'
    BY <1>4, OthersStay DEF Undone, others
  <2> QED BY <2>2, <2>3
<1>5. CASE UndoEnds(t)
  <2>1. UNCHANGED others
    BY <1>5 DEF UndoEnds
  <2>2. RegistryOK' /\ FramesOK'
    <3>1. CASE Return(t) /\ UNCHANGED registry
      BY <2>1, <3>1, ReturnNext DEF others
    <3>2. CASE Recover(t, frame[t], frame[t].edge, {}, FALSE, {})
      BY <2>1, <3>2, RecoverNext DEF others
    <3> QED BY <1>5, <3>1, <3>2 DEF UndoEnds
  <2> QED BY <2>1, <2>2, OthersStay DEF others
<1> QED BY <1>1, <1>2, <1>3, <1>4, <1>5

\* commit() and rollback() of a transaction.
LEMMA FinishType ==
  ASSUME RegistryOK, FramesOK, OthersOK, NEW t \in Task,
         \/ \E h \in open : Commit(t, h) \/ Rollback(t, h)
         \/ Rolled(t) \/ FinishOk(t) \/ FinishFailed(t)
  PROVE  RegistryOK' /\ FramesOK' /\ OthersOK'
<1> USE FrameType
<1>1. ASSUME NEW h \in open, NEW at \in Labels, NEW do \in Verbs,
             Finish(t, h, at, do)
      PROVE  RegistryOK' /\ FramesOK' /\ OthersOK'
  <2> DEFINE f == [NoFrame EXCEPT !.h = h, !.reg = info[h].reg, !.edge = h]
  <2>1. UNCHANGED others /\ Shut(After(h), {})
        /\ Await(t, f, at, do, info[h].save)
    BY <1>1 DEF Finish
  <2>2. RegistryOK' /\ made' = made /\ made \in Nat
    BY <2>1, RegistryShuts DEF others
  <2>3. /\ h \in Nat /\ h <= made /\ info[h].save \in Saves
        /\ info[h].reg \in Nat
    BY InfoType DEF RegistryOK
  <2>4. f \in Frames /\ f.h = h /\ f.edge = h
    BY <2>3, NoFrameType DEF Frames
  <2> HIDE DEF f
  <2>5. made' \in Nat /\ made <= made' /\ f.h <= made /\ f.edge <= made
    BY <2>2, <2>3, <2>4
  <2>6. FramesOK'
    BY <2>1, <2>2, <2>3, <2>4, <2>5, AwaitType
  <2> QED BY <2>1, <2>2, <2>6, OthersStay DEF others
<1>2. ASSUME NEW h \in open, Commit(t, h)
      PROVE  RegistryOK' /\ FramesOK' /\ OthersOK'
  <2>1. "commit" \in Labels
        /\ (IF info[h].save = NoSave THEN "commit" ELSE "release") \in Verbs
    BY DEF Labels, Verbs
  <2> QED BY <1>1, <1>2, <2>1 DEF Commit
<1>3. ASSUME NEW h \in open, Rollback(t, h)
      PROVE  RegistryOK' /\ FramesOK' /\ OthersOK'
  <2>1. "rollback" \in Labels
        /\ (IF info[h].save = NoSave THEN "rollback" ELSE "rollback to") \in Verbs
    BY DEF Labels, Verbs
  <2> QED BY <1>1, <1>3, <2>1 DEF Rollback
<1>4. CASE Rolled(t)
  <2>1. "rollbackRelease" \in Labels /\ "release" \in Verbs
    BY DEF Labels, Verbs
  <2>2. RegistryOK' /\ FramesOK'
    BY <1>4, <2>1, AwaitNext DEF Rolled
  <2> QED BY <1>4, <2>2, OthersStay DEF Rolled, others
<1>5. CASE FinishOk(t)
  <2>1. RegistryOK' /\ made' = made /\ made \in Nat
    BY <1>5, RegistryShuts DEF FinishOk
  <2>2. made' \in Nat /\ made <= made'
    BY <2>1
  <2>3. FramesOK'
    BY <1>5, <2>1, <2>2, ReturnType DEF FinishOk
  <2>4. leased' \in BOOLEAN /\ session' \in Sessions
    BY <1>5, GiveBackType DEF FinishOk
  <2>5. acked' \subseteq Nat
    BY <1>5 DEF FinishOk, OthersOK
  <2> QED BY <1>5, <2>1, <2>3, <2>4, <2>5 DEF FinishOk, OthersOK
<1>6. CASE FinishFailed(t)
  <2>1. RegistryOK' /\ FramesOK'
    BY <1>6, RecoverNext DEF FinishFailed, others
  <2> QED BY <1>6, <2>1, OthersStay DEF FinishFailed, others
<1> QED BY <1>2, <1>3, <1>4, <1>5, <1>6

\* savepoint().
LEMMA SavepointType ==
  ASSUME RegistryOK, FramesOK, OthersOK, NEW t \in Task,
         \/ \E h \in open, n \in Name : Savepoint(t, h, n)
         \/ SavepointOk(t) \/ SavepointInterrupted(t) \/ SavepointFailed(t)
         \/ Dropped(t)
  PROVE  RegistryOK' /\ FramesOK' /\ OthersOK'
<1> USE FrameType
<1>1. ASSUME NEW h \in open, NEW n \in Name, Savepoint(t, h, n)
      PROVE  RegistryOK' /\ FramesOK' /\ OthersOK'
  <2> DEFINE f == [NoFrame EXCEPT !.h = h, !.reg = info[h].reg]
  <2>1. /\ UNCHANGED <<info, open, current, regs, minted, others>>
        /\ names' = names \union {<<info[h].reg, n>>}
        /\ Await(t, f, "savepoint", "savepoint", n)
    BY <1>1 DEF Savepoint
  <2>2. n \in Saves /\ "savepoint" \in Labels /\ "savepoint" \in Verbs
    BY DEF Saves, Labels, Verbs
  <2>3. h \in Nat /\ h <= made /\ info[h].reg \in Nat /\ made \in Nat
    BY InfoType DEF RegistryOK
  <2>4. RegistryOK' /\ made' = made
    BY <2>1, <2>2, <2>3 DEF RegistryOK, made, others
  <2>5. f \in Frames /\ f.h = h /\ f.edge = 0
    BY <2>3, NoFrameType DEF Frames
  <2> HIDE DEF f
  <2>6. made' \in Nat /\ made <= made' /\ f.h <= made /\ f.edge <= made
    BY <2>3, <2>4, <2>5
  <2>7. FramesOK'
    BY <2>1, <2>2, <2>3, <2>5, <2>6, AwaitType
  <2> QED BY <2>1, <2>4, <2>7, OthersStay DEF others
<1>2. CASE SavepointOk(t)
  <2>1. /\ info' \in Seq(Records) /\ made' = made + 1 /\ made \in Nat
        /\ DOMAIN info' = 1 .. made + 1
        /\ open' \subseteq DOMAIN info' /\ pooled \subseteq DOMAIN info'
        /\ \A h \in DOMAIN info' : info'[h].owner <= made'
    <3>1. "sp" \in Kinds
      BY DEF Kinds
    <3>2. Construct("sp", frame[t].h, frame[t].save, frame[t].reg)
      BY <1>2 DEF SavepointOk
    <3> QED BY <3>1, <3>2, ConstructType
  <2>2. RegistryOK'
    BY <1>2, <2>1 DEF SavepointOk, RegistryOK
  <2>3. made' \in Nat /\ made <= made'
    BY <2>1
  <2>4. FramesOK'
    BY <1>2, <2>1, <2>3, ReturnType DEF SavepointOk
  <2> QED BY <1>2, <2>2, <2>4, OthersStay DEF SavepointOk
<1>3. CASE SavepointInterrupted(t)
  <2>1. RegistryOK' /\ made' = made /\ made \in Nat
    BY <1>3 DEF SavepointInterrupted, RegistryOK, made
  <2>2. "drop" \in Labels /\ "release" \in Verbs
    BY DEF Labels, Verbs
  <2>3. made' \in Nat /\ made <= made'
    BY <2>1
  <2>4. FramesOK'
    BY <1>3, <2>1, <2>2, <2>3, AwaitType DEF SavepointInterrupted
  <2>5. faults' \in 0 .. MaxFaults
    <3>1. faults < MaxFaults /\ faults' = faults + 1
      BY <1>3 DEF SavepointInterrupted
    <3>2. faults \in 0 .. MaxFaults /\ MaxFaults \in Nat
      BY ConstantsAssumption DEF ConstantsAssumption, OthersOK
    <3> QED BY <3>1, <3>2
  <2> QED BY <1>3, <2>1, <2>4, <2>5 DEF SavepointInterrupted, OthersOK
<1>4. CASE SavepointFailed(t)
  <2>1. RegistryOK' /\ made' = made /\ made \in Nat
    BY <1>4 DEF SavepointFailed, RegistryOK, made, others
  <2>2. made' \in Nat /\ made <= made'
    BY <2>1
  <2>3. FramesOK'
    BY <1>4, <2>1, <2>2, ReturnType DEF SavepointFailed
  <2> QED BY <1>4, <2>1, <2>3, OthersStay DEF SavepointFailed, others
<1>5. CASE Dropped(t)
  <2>1. RegistryOK' /\ FramesOK'
    BY <1>5, ReturnNext DEF Dropped, others
  <2> QED BY <1>5, <2>1, OthersStay DEF Dropped, others
<1> QED BY <1>1, <1>2, <1>3, <1>4, <1>5

\* Savepoint handles and queries.
LEMMA HandleCallsType ==
  ASSUME RegistryOK, FramesOK, OthersOK, NEW t \in Task,
         \/ \E h \in open : SpRelease(t, h) \/ SpRollback(t, h) \/ Query(t, h)
         \/ SpReleaseOk(t) \/ SpRollbackOk(t) \/ SpFailed(t) \/ QueryEnds(t)
  PROVE  RegistryOK' /\ FramesOK' /\ OthersOK'
<1> USE FrameType
<1>1. ASSUME NEW s \in open, NEW at \in Labels, NEW do \in Verbs,
             SpCall(t, s, at, do)
      PROVE  RegistryOK' /\ FramesOK' /\ OthersOK'
  <2> DEFINE f == [NoFrame EXCEPT !.h = s, !.reg = info[s].reg,
                                  !.edge = info[s].owner]
  <2>1. /\ UNCHANGED <<registry, others>>
        /\ Await(t, f, at, do, info[s].save)
    BY <1>1 DEF SpCall
  <2>2. /\ s \in Nat /\ s <= made /\ info[s].save \in Saves
        /\ info[s].reg \in Nat /\ info[s].owner \in Nat /\ info[s].owner <= made
    BY InfoType DEF RegistryOK
  <2>3. f \in Frames /\ f.h = s /\ f.edge = info[s].owner
    BY <2>2, NoFrameType DEF Frames
  <2> HIDE DEF f
  <2>4. f.h <= made /\ f.edge <= made
    BY <2>2, <2>3
  <2>5. RegistryOK' /\ FramesOK'
    BY <2>1, <2>2, <2>3, <2>4, AwaitNext
  <2> QED BY <2>1, <2>5, OthersStay DEF others
<1>2. ASSUME NEW s \in open, SpRelease(t, s) \/ SpRollback(t, s)
      PROVE  RegistryOK' /\ FramesOK' /\ OthersOK'
  <2>1. /\ "spRelease" \in Labels /\ "spRollback" \in Labels
        /\ "release" \in Verbs /\ "rollback to" \in Verbs
    BY DEF Labels, Verbs
  <2> QED BY <1>1, <1>2, <2>1 DEF SpRelease, SpRollback
<1>3. ASSUME NEW h \in open, Query(t, h)
      PROVE  RegistryOK' /\ FramesOK' /\ OthersOK'
  <2> DEFINE f == [NoFrame EXCEPT !.h = h, !.reg = info[h].reg]
  <2>1. /\ UNCHANGED <<registry, others>>
        /\ Await(t, f, "query", "query", NoSave)
    BY <1>3 DEF Query
  <2>2. h \in Nat /\ h <= made /\ info[h].reg \in Nat /\ made \in Nat
    BY InfoType DEF RegistryOK
  <2>3. f \in Frames /\ f.h = h /\ f.edge = 0
    BY <2>2, NoFrameType DEF Frames
  <2>4. NoSave \in Saves /\ "query" \in Labels /\ "query" \in Verbs
    <3>1. NoSave \in Saves
      BY ConstantsAssumption DEF ConstantsAssumption, Saves, NoSave
    <3> QED BY <3>1 DEF Labels, Verbs
  <2> HIDE DEF f
  <2>5. f.h <= made /\ f.edge <= made
    BY <2>2, <2>3
  <2>6. RegistryOK' /\ FramesOK'
    BY <2>1, <2>3, <2>4, <2>5, AwaitNext
  <2> QED BY <2>1, <2>6, OthersStay DEF others
<1>4. CASE SpReleaseOk(t) \/ SpRollbackOk(t)
  <2>1. UNCHANGED others /\ Return(t) /\ \E S : Shut(S, {})
    BY <1>4 DEF SpReleaseOk, SpRollbackOk
  <2>2. RegistryOK' /\ made' = made /\ made \in Nat
    BY <2>1, RegistryShuts DEF others
  <2>3. made' \in Nat /\ made <= made'
    BY <2>2
  <2>4. FramesOK'
    BY <2>1, <2>2, <2>3, ReturnType
  <2> QED BY <2>1, <2>2, <2>4, OthersStay DEF others
<1>5. CASE SpFailed(t)
  <2>1. RegistryOK' /\ FramesOK'
    BY <1>5, RecoverNext DEF SpFailed, others
  <2> QED BY <1>5, <2>1, OthersStay DEF SpFailed, others
<1>6. CASE QueryEnds(t)
  <2>1. RegistryOK' /\ FramesOK'
    BY <1>6, ReturnNext DEF QueryEnds, others
  <2> QED BY <1>6, <2>1, OthersStay DEF QueryEnds, others
<1> QED BY <1>2, <1>3, <1>4, <1>5, <1>6

\* The server's replies and the faults.
LEMMA ServerType ==
  ASSUME TypeOK, NEW t \in Task,
         Answer(t) \/ Cancel(t) \/ Lose(t)
  PROVE  RegistryOK' /\ FramesOK' /\ OthersOK'
<1>1. RegistryOK /\ FramesOK /\ OthersOK
  BY TypeParts
<1>2. /\ session \in Sessions /\ frame[t].do \in Verbs
      /\ frame[t].save \in Saves /\ frame[t].h \in Nat
  BY <1>1, FrameType DEF OthersOK
<1>3. Failed(session) \in Sessions /\ Ended(session) \in Sessions
      /\ [session EXCEPT !.up = FALSE] \in Sessions
  <2>1. <<>> \in Seq(Saves)
    OBVIOUS
  <2> QED BY <1>2, <2>1 DEF Failed, Ended, Sessions
<1>4. Accepted(session, frame[t].do, frame[t].save) =>
        Applied(session, frame[t].do, frame[t].save) \in Sessions
  BY <1>2, AppliedType
<1>5. Committed(t) \subseteq Nat
  BY <1>1, <1>2 DEF Committed, OthersOK
<1>6. CASE Answer(t) \/ Cancel(t) \/ Lose(t)
  <2>1. PICK s \in Sessions, ok \in BOOLEAN : Answered(t, s, ok)
    BY <1>3, <1>4, <1>6 DEF Answer, Cancel, Lose
  <2>2. RegistryOK' /\ FramesOK' /\ leased' \in BOOLEAN
        /\ session' \in Sessions /\ acked' \subseteq Nat
    BY <2>1, AnsweredType
  <2>3. durable' \subseteq Nat
    BY <1>1, <1>5, <1>6 DEF Answer, Cancel, Lose, OthersOK
  <2>4. faults' \in 0 .. MaxFaults
    <3>1. (faults < MaxFaults /\ faults' = faults + 1) \/ faults' = faults
      BY <1>6 DEF Answer, Cancel, Lose
    <3>2. faults \in 0 .. MaxFaults /\ MaxFaults \in Nat
      BY <1>1, ConstantsAssumption DEF ConstantsAssumption, OthersOK
    <3> QED BY <3>1, <3>2
  <2> QED BY <2>2, <2>3, <2>4 DEF OthersOK
<1> QED BY <1>6

\* The caller's own transaction.
LEMMA ServerCallerType ==
  ASSUME RegistryOK, FramesOK, OthersOK, CallerBegins \/ CallerEnds
  PROVE  RegistryOK' /\ FramesOK' /\ OthersOK'
<1>1. <<>> \in Seq(Saves)
  OBVIOUS
<1>2. UNCHANGED <<registry, pooled, leased, frame, faults, acked, durable>>
      /\ session' \in Sessions
  BY <1>1 DEF CallerBegins, CallerEnds, Ended, Sessions, OthersOK
<1>3. RegistryOK' /\ made' = made
  BY <1>2, RegistryStays
<1> QED BY <1>2, <1>3 DEF FramesOK, OthersOK

-----------------------------------------------------------------------------
\* The initial state is of the right type.
LEMMA InitType == Init => TypeOK
<1> SUFFICES ASSUME Init PROVE RegistryOK /\ FramesOK /\ OthersOK
  BY TypeParts
<1>1. <<>> \in Seq(Saves) /\ <<>> \in Seq(Records)
      /\ Len(<<>>) = 0 /\ DOMAIN <<>> = 1 .. 0
  OBVIOUS
<1>2. 0 \in 0 .. MaxBegins /\ 0 \in 0 .. MaxFaults
  BY ConstantsAssumption DEF ConstantsAssumption
<1>3. RegistryOK
  BY <1>1, <1>2 DEF Init, RegistryOK, made, None
<1>4. FramesOK
  <2>1. made = 0
    BY <1>1 DEF Init, made
  <2>2. frame = [t \in Task |-> NoFrame]
    BY DEF Init
  <2> QED BY <2>1, <2>2, NoFrameType DEF FramesOK
<1>5. OthersOK
  BY <1>1, <1>2 DEF Init, OthersOK, Fresh, Sessions
<1> QED BY <1>3, <1>4, <1>5

\* TypeOK holds in every reachable state: no operation of any task, no reply
\* and no fault takes the registry, the session or a frame out of its type.
THEOREM TypeCorrect == Spec => []TypeOK
<1>1. Init => TypeOK
  BY InitType
<1>2. TypeOK /\ [Next]_vars => TypeOK'
  <2> SUFFICES ASSUME TypeOK, [Next]_vars PROVE RegistryOK' /\ FramesOK' /\ OthersOK'
    BY DEF TypeOK, RegistryOK, FramesOK, OthersOK
  <2>1. RegistryOK /\ FramesOK /\ OthersOK
    BY TypeParts
  <2>2. ASSUME NEW t \in Task, Starts(t)
        PROVE  RegistryOK' /\ FramesOK' /\ OthersOK'
    <3>1. CASE \E h \in open \union {None} : Begin(t, h)
      BY <2>1, <3>1, BeginType
    <3>2. CASE \E h \in open : Commit(t, h) \/ Rollback(t, h)
      BY <2>1, <3>2, FinishType
    <3>3. CASE \E h \in open, n \in Name : Savepoint(t, h, n)
      BY <2>1, <3>3, SavepointType
    <3>4. CASE \E h \in open : SpRelease(t, h) \/ SpRollback(t, h) \/ Query(t, h)
      BY <2>1, <3>4, HandleCallsType
    <3> QED BY <2>2, <3>1, <3>2, <3>3, <3>4 DEF Starts
  <2>3. ASSUME NEW t \in Task, Continues(t)
        PROVE  RegistryOK' /\ FramesOK' /\ OthersOK'
    BY <2>1, <2>3, RecoveryTypes, BeginEndsType, FinishType, SavepointType,
       HandleCallsType DEF Continues
  <2>4. CASE UNCHANGED vars
    BY <2>1, <2>4
       DEF vars, registry, others, RegistryOK, FramesOK, OthersOK, made
  <2>5. CASE \E t \in Task : Answer(t) \/ Cancel(t) \/ Lose(t)
    BY <2>5, ServerType
  <2>6. CASE CallerBegins \/ CallerEnds
    BY <2>1, <2>6, ServerCallerType
  <2> QED BY <2>2, <2>3, <2>4, <2>5, <2>6 DEF Next
<1> QED BY <1>1, <1>2, PTL DEF Spec

-----------------------------------------------------------------------------
(* One operation at a time: handles nest as ScopeStack promises.           *)

\* At most one task is inside an operation.
OneBusy == \A t, u \in Task : frame[t].at # "idle" /\ frame[u].at # "idle" => t = u

\* Every open handle is in the connection's registry, and the transaction
\* that owns an open savepoint is open and older.
WellNested ==
  \A h \in open :
    /\ info[h].reg = current /\ current # None
    /\ ~IsTx(h) => info[h].owner \in open /\ IsTx(info[h].owner) /\ info[h].owner < h

\* While a pooled database has an open handle the connection is checked out,
\* and the handle that will give it back is the outermost.
PoolHeld ==
  /\ Pool /\ open # {} => leased
  /\ \A p \in pooled, e \in open : p <= e

\* What a running operation may rely on when its reply arrives.
FrameInv(t) ==
  LET f == frame[t]
  IN /\ f.at \in {"start", "undo", "undoRelease"} =>
          /\ f.edge \in open \union {None}
          /\ f.reg = current /\ current # None
          /\ Pool => leased
          /\ f.pool => open = {}
     /\ f.at \in {"commit", "rollback", "rollbackRelease"} =>
          f.h \in open /\ IsTx(f.h) /\ \A e \in open : e <= f.h
     /\ f.at \in {"spRelease", "spRollback"} =>
          f.h \in open /\ ~IsTx(f.h) /\ f.edge = info[f.h].owner
     /\ f.at = "savepoint" => f.h \in open /\ IsTx(f.h) /\ f.reg = info[f.h].reg
     /\ f.at = "recover" => open = {}

\* The inductive invariant behind ScopesNest.
NestInv == TypeOK /\ OneBusy /\ WellNested /\ PoolHeld /\ \A t \in Task : FrameInv(t)

\* A step of the abstract stack or a stutter.
ScopeStep == [Scopes!ScopeNext]_<<made, open>>

\* Handles are numbers from 1 to made.
LEMMA OpenType ==
  ASSUME TypeOK
  PROVE  /\ made \in Nat /\ DOMAIN info = 1 .. made
         /\ open \subseteq 1 .. made /\ pooled \subseteq 1 .. made
         /\ open \subseteq Nat /\ frame \in [Task -> Frames]
BY DEF TypeOK, made

\* Only the tasks that are idle differ from the busy one.
LEMMA OnlyBusy ==
  ASSUME OneBusy, NEW t \in Task, frame[t].at # "idle"
  PROVE  \A u \in Task \ {t} : frame[u].at = "idle"
BY DEF OneBusy

\* A task that sends a command is the only busy one, and carries its frame.
LEMMA AwaitSolo ==
  ASSUME frame \in [Task -> Frames], NEW t \in Task,
         \A u \in Task \ {t} : frame[u].at = "idle",
         NEW f \in Frames, NEW at, NEW do, NEW save, Await(t, f, at, do, save)
  PROVE  /\ frame'[t].at = at /\ frame'[t].h = f.h /\ frame'[t].edge = f.edge
         /\ frame'[t].reg = f.reg /\ frame'[t].pool = f.pool
         /\ OneBusy'
         /\ \A u \in Task : u # t => FrameInv(u)'
<1> DEFINE g == [f EXCEPT !.at = at, !.do = do, !.save = save,
              !.reply = IF \E u \in Task \ {t} : frame[u].reply = "waiting"
                        THEN "refused" ELSE "waiting"]
<1>1. /\ g.at = at /\ g.h = f.h /\ g.edge = f.edge /\ g.reg = f.reg
      /\ g.pool = f.pool
  BY DEF Frames
<1>2. frame' = [frame EXCEPT ![t] = g]
  BY DEF Await
<1> HIDE DEF g
<1>3. frame'[t] = g /\ \A u \in Task : u # t => frame'[u].at = "idle"
  BY <1>2
<1>4. OneBusy'
  BY <1>3 DEF OneBusy
<1>5. \A u \in Task : u # t => FrameInv(u)'
  BY <1>3 DEF FrameInv
<1> QED BY <1>1, <1>3, <1>4, <1>5

\* When the only operation ends, every task is idle.
LEMMA ReturnSolo ==
  ASSUME frame \in [Task -> Frames], NEW t \in Task,
         \A u \in Task \ {t} : frame[u].at = "idle", Return(t)
  PROVE  OneBusy' /\ \A u \in Task : FrameInv(u)'
<1>1. \A u \in Task : frame'[u].at = "idle"
  BY DEF Return, NoFrame
<1> QED BY <1>1 DEF OneBusy, FrameInv

\* In one registry, the entries after a handle are the later handles.
LEMMA AfterLater ==
  ASSUME WellNested, NEW h \in open
  PROVE  After(h) = {e \in open : e > h}
BY DEF WellNested, After, Entries

\* Everything from a handle on falls, and nothing before it.
LEMMA FallSuffix ==
  ASSUME TypeOK, WellNested, NEW s \in Nat,
         NEW S, S = {e \in open : e >= s}
  PROVE  Fall(S) = S
<1>1. ASSUME NEW e \in open, ~IsTx(e), info[e].owner \in S PROVE e \in S
  BY <1>1, OpenType DEF WellNested
<1> QED BY <1>1 DEF Fall

\* Closing a suffix leaves a well-nested registry and is a step of the stack.
LEMMA ShutSuffix ==
  ASSUME TypeOK, WellNested, NEW s \in 1 .. made, NEW S, NEW C,
         Fall(S) = {e \in open : e >= s}, Shut(S, C)
  PROVE  /\ open' = {e \in open : e < s} /\ info' = info
         /\ open' # {} => current' = current
         /\ WellNested' /\ ScopeStep
<1>1. open' = {e \in open : e < s} /\ info' = info /\ made' = made
  BY OpenType DEF Shut, made
<1>2. ASSUME open' # {} PROVE current' = current
  <2>1. PICK e \in open : e \notin Fall(S)
    BY <1>2 DEF Shut
  <2>2. e \in Entries(current)
    BY DEF WellNested, Entries
  <2> QED BY <2>1, <2>2 DEF Shut
<1>3. WellNested'
  <2> SUFFICES ASSUME NEW h \in open'
               PROVE /\ info'[h].reg = current' /\ current' # None
                     /\ ~IsTx(h)' => /\ info'[h].owner \in open'
                                     /\ IsTx(info[h].owner)'
                                     /\ info'[h].owner < h
    BY DEF WellNested
  <2>1. h \in open /\ current' = current /\ info' = info
    BY <1>1, <1>2
  <2>2. info[h].reg = current /\ current # None
    BY <2>1 DEF WellNested
  <2>3. ASSUME ~IsTx(h)
        PROVE  info[h].owner \in open' /\ IsTx(info[h].owner) /\ info[h].owner < h
    <3>1. info[h].owner \in open /\ IsTx(info[h].owner) /\ info[h].owner < h
      BY <2>1, <2>3 DEF WellNested
    <3>2. info[h].owner \in Nat /\ h \in Nat /\ h < s /\ s \in Nat
      BY <1>1, <2>1, <3>1, OpenType
    <3> QED BY <1>1, <3>1, <3>2
  <2> QED BY <2>1, <2>2, <2>3 DEF IsTx
<1>4. ScopeStep
  BY <1>1 DEF ScopeStep, Scopes!ScopeNext, Scopes!CloseFrom
<1> QED BY <1>1, <1>2, <1>3, <1>4

\* Handles are whole numbers.
LEMMA Whole ==
  ASSUME TypeOK, NEW h \in Nat
  PROVE  /\ {e \in open : e < h + 1} = {e \in open : e <= h}
         /\ {e \in open : e >= h + 1} = {e \in open : e > h}
         /\ \A e \in open : e >= h <=> e > h \/ e = h
         /\ h >= made => open = {e \in open : e <= h} /\ {e \in open : e > h} = {}
<1>1. \A e \in open : e \in Nat /\ e <= made /\ made \in Nat
  BY OpenType
<1>2. \A e \in open : (e < h + 1 <=> e <= h) /\ (e >= h + 1 <=> e > h)
  BY <1>1
<1>3. h >= made => \A e \in open : e <= h /\ ~(e > h)
  BY <1>1
<1>4. \A e \in open : e >= h <=> e > h \/ e = h
  BY <1>1
<1> QED BY <1>2, <1>3, <1>4

\* Closing the later handles of h only, possibly none.
LEMMA ShutAfter ==
  ASSUME TypeOK, WellNested, NEW h \in open, NEW C, Shut(After(h), C)
  PROVE  /\ open' = {e \in open : e <= h} /\ info' = info
         /\ current' = current /\ WellNested' /\ ScopeStep
<1>1. h \in 1 .. made /\ made \in Nat
  BY OpenType
<1>2. After(h) = {e \in open : e >= h + 1}
  BY <1>1, AfterLater, Whole
<1>3. Fall(After(h)) = {e \in open : e >= h + 1}
  BY <1>1, <1>2, FallSuffix
<1>4. CASE h < made
  <2>1. h + 1 \in 1 .. made
    BY <1>1, <1>4
  <2>2. open' = {e \in open : e < h + 1} /\ info' = info
        /\ (open' # {} => current' = current) /\ WellNested' /\ ScopeStep
    BY <1>3, <2>1, ShutSuffix
  <2>3. {e \in open : e < h + 1} = {e \in open : e <= h}
    BY <1>1, Whole
  <2>4. h \in {e \in open : e <= h}
    BY <1>1
  <2> QED BY <2>2, <2>3, <2>4
<1>5. CASE h = made
  <2>1. Fall(After(h)) = {}
    BY <1>1, <1>3, <1>5, Whole
  <2>2. open' = open /\ info' = info /\ current' = current /\ made' = made
    BY <2>1 DEF Shut, made
  <2>3. open = {e \in open : e <= h}
    BY <1>1, <1>5, Whole
  <2>4. WellNested'
    BY <2>2 DEF WellNested, IsTx
  <2> QED BY <2>2, <2>3, <2>4 DEF ScopeStep
<1> QED BY <1>1, <1>4, <1>5

\* What every step of a serial execution has to establish.
NestStep ==
  /\ WellNested' /\ PoolHeld' /\ OneBusy'
  /\ \A u \in Task : FrameInv(u)'
  /\ ScopeStep

\* A step that constructs and closes nothing.
LEMMA NestStays ==
  ASSUME WellNested, UNCHANGED <<info, open, current>>
  PROVE  WellNested' /\ ScopeStep
BY DEF WellNested, IsTx, ScopeStep, made

\* Closing handles and giving none a connection keeps PoolHeld.
LEMMA PoolStays ==
  ASSUME PoolHeld, open' \subseteq open, pooled' \subseteq pooled, leased' = leased
  PROVE  PoolHeld'
BY DEF PoolHeld

\* The next command of an operation that leaves the registry alone; what
\* FrameInv says at the next label is left to show.
LEMMA NestAwait ==
  ASSUME NestInv, NEW t \in Task, \A u \in Task \ {t} : frame[u].at = "idle",
         UNCHANGED <<info, open, current, pooled>>, leased' = leased,
         NEW f \in Frames, NEW at, NEW do, NEW save,
         Await(t, f, at, do, save), FrameInv(t)'
  PROVE  NestStep
<1>1. WellNested' /\ ScopeStep
  BY NestStays DEF NestInv
<1>2. PoolHeld'
  BY PoolStays DEF NestInv
<1>3. OneBusy' /\ \A u \in Task : u # t => FrameInv(u)'
  BY AwaitSolo, OpenType DEF NestInv
<1> QED BY <1>1, <1>2, <1>3 DEF NestStep

\* The end of an operation that leaves the registry and the pool alone.
LEMMA NestReturn ==
  ASSUME NestInv, NEW t \in Task, \A u \in Task \ {t} : frame[u].at = "idle",
         UNCHANGED <<info, open, current, pooled>>, leased' = leased, Return(t)
  PROVE  NestStep
<1>1. WellNested' /\ ScopeStep
  BY NestStays DEF NestInv
<1>2. PoolHeld'
  BY PoolStays DEF NestInv
<1>3. OneBusy' /\ \A u \in Task : FrameInv(u)'
  BY ReturnSolo, OpenType DEF NestInv
<1> QED BY <1>1, <1>2, <1>3 DEF NestStep

\* Recovery closes a suffix of the open handles: the boundary and what is
\* inside it, or everything.
LEMMA NestRecover ==
  ASSUME NestInv, NEW t \in Task, \A u \in Task \ {t} : frame[u].at = "idle",
         NEW f \in Frames, NEW edge \in open \union {None},
         NEW extra \in SUBSET open, NEW owns,
         NEW also \in SUBSET open, \A e \in also : e >= edge,
         UNCHANGED <<pooled, leased>>, Recover(t, f, edge, extra, owns, also)
  PROVE  NestStep
<1> USE DEF NestInv
<1>1. CASE Return(t) /\ UNCHANGED registry
  BY <1>1, NestReturn DEF registry
<1>2. CASE Nested(edge)
           /\ RecoverBoundary(t, f, edge, After(edge) \union {edge} \union also)
  <2>1. edge \in open /\ edge \in 1 .. made /\ edge \in Nat
    BY <1>2, OpenType DEF Nested
  <2>0. frame \in [Task -> Frames]
    BY OpenType
  <2> DEFINE S == After(edge) \union {edge} \union also
             g == [f EXCEPT !.edge = edge]
  <2>2. S = {e \in open : e >= edge}
    <3>1. After(edge) = {e \in open : e > edge}
      BY <2>1, AfterLater
    <3>3. \A e \in open : e >= edge <=> e > edge \/ e = edge
      <4> HIDE DEF S, g
      <4> QED BY <2>1, Whole
    <3>4. S \subseteq {e \in open : e >= edge}
      BY <2>1, <3>1, <3>3
    <3>5. {e \in open : e >= edge} \subseteq S
      BY <2>1, <3>1, <3>3
    <3> QED BY <3>4, <3>5
  <2>3. Shut(S, {}) /\ Await(t, g, "recoverTo", "rollback to", info[edge].save)
    BY <1>2 DEF RecoverBoundary
  <2>4. g \in Frames
    BY <2>1 DEF Frames
  <2> HIDE DEF S, g
  <2>5. Fall(S) = {e \in open : e >= edge}
    BY <2>1, <2>2, FallSuffix
  <2>6. open' = {e \in open : e < edge} /\ WellNested' /\ ScopeStep
    BY <2>1, <2>3, <2>5, ShutSuffix
  <2>7. PoolHeld'
    BY <2>6, PoolStays
  <2>8. /\ frame'[t].at = "recoverTo" /\ OneBusy'
        /\ \A u \in Task : u # t => FrameInv(u)'
    <3>1. PICK save : Await(t, g, "recoverTo", "rollback to", save)
      BY <2>3
    <3> HIDE DEF NestInv
    <3> QED BY <2>4, <3>1, <2>0, AwaitSolo
  <2>9. FrameInv(t)'
    BY <2>8 DEF FrameInv
  <2> QED BY <2>6, <2>7, <2>8, <2>9 DEF NestStep
<1>3. CASE RecoverAll(t, f, Snapshot(extra), also)
  <2> DEFINE touched == {info[h].reg : h \in Snapshot(extra)}
             S       == {e \in open : info[e].reg \in touched} \union also
  <2>1. Shut(S, touched) /\ Await(t, f, "recover", "rollback", NoSave)
    BY <1>3 DEF RecoverAll
  <2>2. S = open
    <3> SUFFICES ASSUME NEW e \in open PROVE info[e].reg \in touched
      OBVIOUS
    <3>1. info[e].reg = current
      BY DEF WellNested
    <3>2. CASE IsTx(e)
      BY <3>2 DEF Snapshot
    <3>3. CASE ~IsTx(e)
      <4>1. info[e].owner \in open /\ IsTx(info[e].owner)
        BY <3>3 DEF WellNested
      <4>2. info[e].owner \in Snapshot(extra) /\ info[info[e].owner].reg = current
        BY <4>1 DEF WellNested, Snapshot
      <4> QED BY <3>1, <4>2
    <3> QED BY <3>2, <3>3
  <2> HIDE DEF S, touched
  <2>3. Fall(S) = open
    BY <2>2 DEF Fall
  <2>4. open' = {} /\ info' = info /\ made' = made
    BY <2>1, <2>3 DEF Shut, made
  <2>5. WellNested'
    BY <2>4 DEF WellNested
  <2>6. ScopeStep
    <3>1. CASE open = {}
      BY <2>4, <3>1 DEF ScopeStep
    <3>2. CASE open # {}
      <4>1. 1 \in 1 .. made /\ \A o \in open : ~(o < 1)
        BY <3>2, OpenType
      <4>2. Scopes!CloseFrom(1)
        BY <2>4, <4>1 DEF Scopes!CloseFrom
      <4> QED BY <4>1, <4>2 DEF ScopeStep, Scopes!ScopeNext
    <3> QED BY <3>1, <3>2
  <2>7. PoolHeld'
    BY <2>4, PoolStays
  <2>8. /\ frame'[t].at = "recover" /\ OneBusy'
        /\ \A u \in Task : u # t => FrameInv(u)'
    BY <2>1, AwaitSolo, OpenType
  <2>9. FrameInv(t)'
    BY <2>4, <2>8 DEF FrameInv
  <2> QED BY <2>5, <2>6, <2>7, <2>8, <2>9 DEF NestStep
<1> QED BY <1>1, <1>2, <1>3 DEF Recover

\* Starting an operation of a handle or of the database.
LEMMA NestStarts ==
  ASSUME Serial, NestInv, NEW t \in Task, Starts(t)
  PROVE  NestStep
<1> USE DEF NestInv
<1>1. /\ \A u \in Task \ {t} : frame[u].at = "idle"
      /\ made \in Nat /\ open \subseteq 1 .. made
      /\ RegistryOK /\ FramesOK /\ OthersOK
  <2>1. Ready(t)
    BY DEF Starts, Begin, Commit, Rollback, Finish, Savepoint, SpRelease,
           SpRollback, SpCall, Query
  <2> QED BY <2>1, OpenType, TypeParts DEF Ready, Quiet
<1>2. ASSUME NEW h \in open \union {None}, Begin(t, h)
      PROVE  NestStep
  <2> DEFINE inside   == session.txn # "none"
             fromPool == Pool /\ h = None /\ ~leased
             reg      == IF h # None THEN info[h].reg
                         ELSE IF current # None /\ ~fromPool THEN current
                         ELSE regs + 1
             edge     == IF inside /\ Stack(reg) # {} THEN Top(reg) ELSE None
             save     == IF inside THEN minted + 1 ELSE NoSave
             f        == [NoFrame EXCEPT !.h = h, !.reg = reg,
                                         !.pool = fromPool, !.edge = edge]
  <2>1. /\ current' = IF h = None THEN reg ELSE current
        /\ leased' = (leased \/ fromPool)
        /\ Await(t, f, "start", IF inside THEN "savepoint" ELSE "begin", save)
        /\ UNCHANGED <<info, open, pooled>>
    BY <1>2 DEF Begin
  <2>2. fromPool => open = {}
    BY DEF PoolHeld
  <2>3. h # None => reg = current
    BY DEF WellNested
  <2>4. current' = reg
    BY <2>1, <2>3
  <2>5. open # {} => reg = current
    <3>1. open # {} => current # None
      BY DEF WellNested
    <3> QED BY <2>2, <2>3, <3>1
  <2>6. reg \in Nat /\ reg # None
    <3>1. regs \in Nat /\ current \in Nat
      BY <1>1 DEF RegistryOK
    <3>2. h # None => current # None
      BY DEF WellNested
    <3> QED BY <2>3, <3>1, <3>2 DEF None
  <2>7. edge \in open \union {None}
    <3>1. Stack(reg) # {} => Top(reg) \in Stack(reg)
      <4> HIDE DEF reg
      <4> QED BY <1>1, TopType
    <3> QED BY <3>1 DEF Stack, Entries
  <2>8. Pool => leased'
    BY <2>1 DEF PoolHeld
  <2>9. /\ f \in Frames /\ f.edge = edge /\ f.reg = reg /\ f.pool = fromPool
    <3>1. fromPool \in BOOLEAN
      BY <1>1, ConstantsAssumption DEF ConstantsAssumption, OthersOK
    <3>2. h \in Nat /\ edge \in Nat
      <4> HIDE DEF f, edge, reg, save, fromPool, inside
      <4>1. open \subseteq Nat
        BY OpenType
      <4> QED BY <2>7, <4>1 DEF None
    <3> HIDE DEF reg, edge, fromPool
    <3> QED BY <2>6, <3>1, <3>2, NoFrameType DEF Frames
  <2> HIDE DEF f, edge, reg, save, fromPool, inside
  <2>10. /\ frame'[t].at = "start" /\ frame'[t].edge = edge
         /\ frame'[t].reg = reg /\ frame'[t].pool = fromPool
         /\ OneBusy' /\ \A u \in Task : u # t => FrameInv(u)'
    BY <1>1, <2>1, <2>9, AwaitSolo, OpenType
  <2>11. FrameInv(t)'
    BY <2>1, <2>2, <2>4, <2>6, <2>7, <2>8, <2>10 DEF FrameInv, None
  <2>12. WellNested'
    BY <2>1, <2>4, <2>5, <2>6 DEF WellNested, IsTx, None
  <2>13. PoolHeld'
    BY <2>1, <2>8 DEF PoolHeld
  <2>14. ScopeStep
    BY <2>1 DEF ScopeStep, made
  <2> QED BY <2>10, <2>11, <2>12, <2>13, <2>14 DEF NestStep
<1>3. ASSUME NEW h \in open, Commit(t, h) \/ Rollback(t, h)
      PROVE  NestStep
  <2> DEFINE f == [NoFrame EXCEPT !.h = h, !.reg = info[h].reg, !.edge = h]
  <2>1. PICK at \in {"commit", "rollback"}, do \in Verbs : Finish(t, h, at, do)
    BY <1>3 DEF Commit, Rollback, Verbs
  <2>2. /\ IsTx(h) /\ UNCHANGED others /\ Shut(After(h), {})
        /\ Await(t, f, at, do, info[h].save)
    BY <2>1 DEF Finish
  <2>3. f \in Frames /\ f.h = h
    <3>1. h \in Nat /\ info[h].reg \in Nat
      BY <1>1, InfoType DEF RegistryOK
    <3> QED BY <3>1, NoFrameType DEF Frames
  <2> HIDE DEF f
  <2>4. /\ open' = {e \in open : e <= h} /\ info' = info
        /\ WellNested' /\ ScopeStep
    BY <2>2, ShutAfter
  <2>5. PoolHeld'
    BY <2>2, <2>4, PoolStays DEF others
  <2>6. /\ frame'[t].at = at /\ frame'[t].h = h
        /\ OneBusy' /\ \A u \in Task : u # t => FrameInv(u)'
    BY <1>1, <2>2, <2>3, AwaitSolo, OpenType
  <2>7. h \in open' /\ IsTx(h)' /\ \A e \in open' : e <= h
    BY <1>1, <2>2, <2>4 DEF IsTx
  <2>8. FrameInv(t)'
    BY <2>1, <2>6, <2>7 DEF FrameInv
  <2> QED BY <2>4, <2>5, <2>6, <2>8 DEF NestStep
<1>4. ASSUME NEW h \in open, NEW n \in Name, Savepoint(t, h, n)
      PROVE  NestStep
  <2> DEFINE f == [NoFrame EXCEPT !.h = h, !.reg = info[h].reg]
  <2>1. /\ IsTx(h) /\ UNCHANGED <<info, open, current, others>>
        /\ Await(t, f, "savepoint", "savepoint", n)
    BY <1>4 DEF Savepoint
  <2>2. f \in Frames /\ f.h = h /\ f.reg = info[h].reg
    <3>1. h \in Nat /\ info[h].reg \in Nat
      BY <1>1, InfoType DEF RegistryOK
    <3> QED BY <3>1, NoFrameType DEF Frames
  <2> HIDE DEF f
  <2>3. frame'[t].at = "savepoint" /\ frame'[t].h = h /\ frame'[t].reg = info[h].reg
    BY <1>1, <2>1, <2>2, AwaitSolo, OpenType
  <2>4. FrameInv(t)'
    BY <2>1, <2>3 DEF FrameInv, IsTx
  <2> QED BY <1>1, <2>1, <2>2, <2>4, NestAwait DEF others
<1>5. ASSUME NEW s \in open, SpRelease(t, s) \/ SpRollback(t, s)
      PROVE  NestStep
  <2> DEFINE f == [NoFrame EXCEPT !.h = s, !.reg = info[s].reg,
                                  !.edge = info[s].owner]
  <2>1. PICK at \in {"spRelease", "spRollback"}, do \in Verbs : SpCall(t, s, at, do)
    BY <1>5 DEF SpRelease, SpRollback, Verbs
  <2>2. /\ ~IsTx(s) /\ UNCHANGED <<registry, others>>
        /\ Await(t, f, at, do, info[s].save)
    BY <2>1 DEF SpCall
  <2>3. f \in Frames /\ f.h = s /\ f.edge = info[s].owner
    <3>1. s \in Nat /\ info[s].reg \in Nat /\ info[s].owner \in Nat
      BY <1>1, InfoType DEF RegistryOK
    <3> QED BY <3>1, NoFrameType DEF Frames
  <2> HIDE DEF f
  <2>4. frame'[t].at = at /\ frame'[t].h = s /\ frame'[t].edge = info[s].owner
    BY <1>1, <2>2, <2>3, AwaitSolo, OpenType
  <2>5. FrameInv(t)'
    BY <2>1, <2>2, <2>4 DEF FrameInv, IsTx, registry
  <2> QED BY <1>1, <2>2, <2>3, <2>5, NestAwait DEF registry, others
<1>6. ASSUME NEW h \in open, Query(t, h)
      PROVE  NestStep
  <2> DEFINE f == [NoFrame EXCEPT !.h = h, !.reg = info[h].reg]
  <2>1. /\ UNCHANGED <<registry, others>>
        /\ Await(t, f, "query", "query", NoSave)
    BY <1>6 DEF Query
  <2>2. f \in Frames
    <3>1. h \in Nat /\ info[h].reg \in Nat
      BY <1>1, InfoType DEF RegistryOK
    <3> QED BY <3>1, NoFrameType DEF Frames
  <2> HIDE DEF f
  <2>3. frame'[t].at = "query"
    BY <1>1, <2>1, <2>2, AwaitSolo, OpenType
  <2>4. FrameInv(t)'
    BY <2>3 DEF FrameInv
  <2> QED BY <1>1, <2>1, <2>2, <2>4, NestAwait DEF registry, others
<1> QED BY <1>2, <1>3, <1>4, <1>5, <1>6 DEF Starts

\* A task that resumes is the busy one; its frame says what it relies on.
LEMMA Resumed ==
  ASSUME NestInv, NEW t \in Task, frame[t].at # "idle"
  PROVE  /\ \A u \in Task \ {t} : frame[u].at = "idle"
         /\ frame[t] \in Frames /\ FrameInv(t)
BY OnlyBusy, OpenType DEF NestInv

\* A handle is constructed behind every open one.
LEMMA NestConstruct ==
  ASSUME NestInv, NEW t \in Task, \A u \in Task \ {t} : frame[u].at = "idle",
         NEW kind \in Kinds, NEW owner \in Nat, NEW save \in Saves, NEW reg \in Nat,
         owner <= made, reg = current, current # None, current' = current,
         kind = "sp" => owner \in open /\ IsTx(owner),
         Construct(kind, owner, save, reg), Return(t),
         pooled' = pooled \/ (open = {} /\ pooled' = pooled \union {made + 1}),
         leased' = leased, Pool => leased
  PROVE  NestStep
<1> USE DEF NestInv
<1>1. /\ made \in Nat /\ made' = made + 1 /\ open \subseteq 1 .. made
      /\ pooled \subseteq 1 .. made /\ open' = open \union {made + 1}
      /\ DOMAIN info = 1 .. made /\ info \in Seq(Records)
  <2>1. RegistryOK
    BY TypeParts
  <2>2. made' = made + 1
    BY <2>1, ConstructType
  <2> QED BY <2>1, <2>2, OpenType DEF Construct, RegistryOK
<1> DEFINE r == [kind |-> kind, owner |-> owner, save |-> save, reg |-> reg]
<1>2. /\ \A h \in open : info'[h] = info[h]
      /\ info'[made + 1] = r
  <2>1. info' = Append(info, r) /\ r \in Records /\ made = Len(info)
    BY DEF Construct, Records, made
  <2> HIDE DEF r
  <2> QED BY <1>1, <2>1
<1>3. r.kind = kind /\ r.owner = owner /\ r.reg = reg
  OBVIOUS
<1> HIDE DEF r
<1>4. ASSUME NEW h \in open
      PROVE  /\ info'[h].reg = current' /\ current' # None
             /\ ~IsTx(h)' => /\ info'[h].owner \in open'
                             /\ IsTx(info[h].owner)'
                             /\ info'[h].owner < h
  <2>1. info'[h] = info[h] /\ info[h].reg = current
    BY <1>2 DEF WellNested
  <2>2. ASSUME ~IsTx(h)
        PROVE  /\ info[h].owner \in open' /\ info[h].owner < h
               /\ IsTx(info[h].owner)'
    <3>1. info[h].owner \in open /\ IsTx(info[h].owner) /\ info[h].owner < h
      BY <2>2 DEF WellNested
    <3> QED BY <1>1, <1>2, <2>1, <3>1 DEF IsTx
  <2> QED BY <2>1, <2>2 DEF IsTx
<1>5. ASSUME NEW h, h = made + 1
      PROVE  /\ info'[h].reg = current' /\ current' # None
             /\ ~IsTx(h)' => /\ info'[h].owner \in open'
                             /\ IsTx(info[h].owner)'
                             /\ info'[h].owner < h
  <2>1. info'[h].reg = current' /\ info'[h].kind = kind /\ info'[h].owner = owner
    BY <1>2, <1>3, <1>5
  <2>2. CASE kind = "tx"
    BY <2>1, <2>2 DEF IsTx
  <2>3. CASE kind = "sp"
    <3>1. owner \in open /\ IsTx(owner) /\ owner < h
      BY <1>1, <1>5, <2>3
    <3>2. info'[owner] = info[owner] /\ owner \in open'
      BY <1>1, <1>2, <3>1
    <3> QED BY <2>1, <3>1, <3>2 DEF IsTx
  <2> QED BY <2>2, <2>3 DEF Kinds
<1>6. WellNested'
  <2> SUFFICES ASSUME NEW h \in open'
               PROVE  /\ info'[h].reg = current' /\ current' # None
                      /\ ~IsTx(h)' => /\ info'[h].owner \in open'
                                      /\ IsTx(info[h].owner)'
                                      /\ info'[h].owner < h
    BY DEF WellNested
  <2>1. CASE h \in open
    BY <1>4, <2>1
  <2>2. CASE h = made + 1
    BY <1>5, <2>2
  <2> QED BY <1>1, <2>1, <2>2
<1>7. PoolHeld'
  <2>1. ASSUME NEW p \in pooled', NEW e \in open' PROVE p <= e
    <3>1. CASE e \in open
      <4>1. p \in pooled
        BY <3>1
      <4> QED BY <3>1, <4>1 DEF PoolHeld
    <3>2. CASE e = made + 1
      <4>1. p \in pooled \/ p = made + 1
        OBVIOUS
      <4>2. p \in pooled => p \in 1 .. made
        BY <1>1
      <4> QED BY <1>1, <3>2, <4>1, <4>2
    <3> QED BY <1>1, <3>1, <3>2
  <2> QED BY <2>1 DEF PoolHeld
<1>8. ScopeStep
  BY <1>1 DEF ScopeStep, Scopes!ScopeNext, Scopes!OpenScope
<1> QED BY <1>6, <1>7, <1>8, ReturnSolo, OpenType DEF NestStep

\* Continuing begin().
LEMMA NestBegins ==
  ASSUME NestInv, NEW t \in Task,
         \/ BeginOk(t) \/ BeginInterrupted(t) \/ BeginFailed(t)
         \/ Undone(t) \/ UndoEnds(t)
  PROVE  NestStep
<1> USE DEF NestInv
<1>1. frame[t].at \in {"start", "undo", "undoRelease"}
  BY DEF BeginOk, BeginInterrupted, BeginFailed, Undone, UndoEnds, Resumes
<1>2. /\ \A u \in Task \ {t} : frame[u].at = "idle"
      /\ frame[t] \in Frames
      /\ frame[t].edge \in open \union {None}
      /\ frame[t].reg = current /\ current # None
      /\ Pool => leased
      /\ frame[t].pool => open = {}
  BY <1>1, Resumed DEF FrameInv
<1>3. CASE BeginOk(t)
  <2>1. /\ Construct("tx", None, frame[t].save, frame[t].reg) /\ Return(t)
        /\ current' = current /\ leased' = leased
        /\ pooled' = IF frame[t].pool THEN pooled \union {made + 1} ELSE pooled
    BY <1>2, <1>3 DEF BeginOk
  <2>2. /\ "tx" \in Kinds /\ None \in Nat /\ None <= made
        /\ frame[t].save \in Saves /\ frame[t].reg \in Nat
    BY <1>2, OpenType DEF Kinds, None, Frames
  <2> QED BY <1>2, <2>1, <2>2, NestConstruct
<1>4. ASSUME NEW owns, NEW edge \in open \union {None}, UNCHANGED <<pooled, leased>>,
             Recover(t, frame[t], edge, {}, owns, {})
      PROVE  NestStep
  BY <1>2, <1>4, NestRecover
<1>5. CASE BeginInterrupted(t)
  <2>1. UNCHANGED <<pooled, leased>>
    BY <1>5 DEF BeginInterrupted
  <2>2. CASE Recover(t, frame[t], None, {}, TRUE, {})
    BY <1>4, <2>1, <2>2
  <2>3. CASE /\ Await(t, frame[t], "undo", "rollback to", frame[t].save)
             /\ UNCHANGED registry
    <3>1. /\ frame'[t].at = "undo" /\ frame'[t].edge = frame[t].edge
          /\ frame'[t].reg = frame[t].reg /\ frame'[t].pool = frame[t].pool
      BY <1>2, <2>3, AwaitSolo, OpenType
    <3>2. FrameInv(t)'
      BY <1>2, <2>1, <2>3, <3>1 DEF FrameInv, registry
    <3> QED BY <1>2, <2>1, <2>3, <3>2, NestAwait DEF registry
  <2> QED BY <1>5, <2>2, <2>3 DEF BeginInterrupted
<1>6. CASE BeginFailed(t)
  <2>1. CASE frame[t].pool /\ GiveBack(TRUE) /\ Return(t) /\ UNCHANGED registry
    <3>1. open' = {} /\ UNCHANGED <<info, open, current>>
      BY <1>2, <2>1 DEF registry
    <3>2. WellNested' /\ ScopeStep
      BY <3>1, NestStays
    <3> QED BY <1>2, <2>1, <3>1, <3>2, ReturnSolo, OpenType DEF NestStep, PoolHeld
  <2>2. CASE /\ Recover(t, frame[t], frame[t].edge, {}, frame[t].do = "begin", {})
             /\ UNCHANGED <<leased, session>>
    BY <1>2, <1>4, <1>6, <2>2 DEF BeginFailed
  <2> QED BY <1>6, <2>1, <2>2 DEF BeginFailed
<1>7. CASE Undone(t)
  <2>1. /\ UNCHANGED <<registry, others>>
        /\ Await(t, frame[t], "undoRelease", "release", frame[t].save)
    BY <1>7 DEF Undone
  <2>2. /\ frame'[t].at = "undoRelease" /\ frame'[t].edge = frame[t].edge
        /\ frame'[t].reg = frame[t].reg /\ frame'[t].pool = frame[t].pool
    BY <1>2, <2>1, AwaitSolo, OpenType
  <2>3. FrameInv(t)'
    BY <1>2, <2>1, <2>2 DEF FrameInv, registry, others
  <2> QED BY <1>2, <2>1, <2>3, NestAwait DEF registry, others
<1>8. CASE UndoEnds(t)
  <2>1. UNCHANGED <<pooled, leased>>
    BY <1>8 DEF UndoEnds, others
  <2>2. CASE Return(t) /\ UNCHANGED registry
    BY <1>2, <2>1, <2>2, NestReturn DEF registry
  <2>3. CASE Recover(t, frame[t], frame[t].edge, {}, FALSE, {})
    BY <1>2, <1>4, <2>1, <2>3
  <2> QED BY <1>8, <2>2, <2>3 DEF UndoEnds
<1> QED BY <1>3, <1>5, <1>6, <1>7, <1>8

\* Continuing recovery, and the ends of operations that touch no handle.
LEMMA NestEnds ==
  ASSUME NestInv, NEW t \in Task,
         \/ RecoverTo(t) \/ RecoverToEnds(t) \/ RecoverEnds(t)
         \/ Dropped(t) \/ QueryEnds(t)
  PROVE  NestStep
<1> USE DEF NestInv
<1>1. /\ \A u \in Task \ {t} : frame[u].at = "idle"
      /\ frame[t] \in Frames /\ FrameInv(t)
  BY Resumed DEF RecoverTo, RecoverToEnds, RecoverEnds, Dropped, QueryEnds, Resumes
<1>2. CASE RecoverTo(t)
  <2>1. /\ UNCHANGED <<registry, others>>
        /\ Await(t, frame[t], "recoverRelease", "release", frame[t].save)
    BY <1>2 DEF RecoverTo
  <2>2. frame'[t].at = "recoverRelease"
    BY <1>1, <2>1, AwaitSolo, OpenType
  <2>3. FrameInv(t)'
    BY <2>2 DEF FrameInv
  <2> QED BY <1>1, <2>1, <2>3, NestAwait DEF registry, others
<1>3. CASE RecoverToEnds(t) \/ Dropped(t) \/ QueryEnds(t)
  <2>1. Return(t) /\ UNCHANGED <<registry, others>>
    BY <1>3 DEF RecoverToEnds, Dropped, QueryEnds
  <2> QED BY <1>1, <2>1, NestReturn DEF registry, others
<1>4. CASE RecoverEnds(t)
  <2>1. /\ Return(t) /\ UNCHANGED registry /\ frame[t].at = "recover"
    BY <1>4 DEF RecoverEnds, Resumes
  <2>2. open' = {} /\ UNCHANGED <<info, open, current>>
    BY <1>1, <2>1 DEF FrameInv, registry
  <2>3. WellNested' /\ ScopeStep /\ PoolHeld'
    BY <2>2, NestStays DEF PoolHeld
  <2> QED BY <1>1, <2>1, <2>3, ReturnSolo, OpenType DEF NestStep
<1> QED BY <1>2, <1>3, <1>4

\* Continuing commit() and rollback().
LEMMA NestFinishes ==
  ASSUME NestInv, NEW t \in Task, Rolled(t) \/ FinishOk(t) \/ FinishFailed(t)
  PROVE  NestStep
<1> USE DEF NestInv
<1> DEFINE h == frame[t].h
<1>1. /\ \A u \in Task \ {t} : frame[u].at = "idle"
      /\ frame[t] \in Frames /\ FrameInv(t)
      /\ frame[t].at \in {"commit", "rollback", "rollbackRelease"}
  BY Resumed DEF Rolled, FinishOk, FinishFailed, Resumes
<1>2. h \in open /\ IsTx(h) /\ (\A e \in open : e <= h) /\ h \in 1 .. made /\ h \in Nat
  <2>1. h \in open /\ IsTx(h) /\ (\A e \in open : e <= h)
    BY <1>1 DEF FrameInv
  <2> QED BY <2>1, OpenType
<1>3. CASE Rolled(t)
  <2>1. /\ UNCHANGED <<registry, others>>
        /\ Await(t, frame[t], "rollbackRelease", "release", frame[t].save)
    BY <1>3 DEF Rolled
  <2>2. frame'[t].at = "rollbackRelease" /\ frame'[t].h = frame[t].h
    BY <1>1, <2>1, AwaitSolo, OpenType
  <2>3. FrameInv(t)'
    BY <1>2, <2>1, <2>2 DEF FrameInv, IsTx, registry
  <2> QED BY <1>1, <2>1, <2>3, NestAwait DEF registry, others
<1>4. CASE FinishOk(t)
  <2>1. /\ Shut({h}, {}) /\ Return(t) /\ GiveBack(h \in pooled)
        /\ pooled' = pooled \ {h}
    BY <1>4 DEF FinishOk
  <2>2. Fall({h}) = {e \in open : e >= h}
    <3>1. ASSUME NEW e \in open PROVE e >= h <=> e = h
      BY <1>2, OpenType
    <3>2. ASSUME NEW e \in open, ~IsTx(e) PROVE info[e].owner # h
      <4>1. info[e].owner < e /\ e \in Nat /\ info[e].owner \in open
        BY <3>2, OpenType DEF WellNested
      <4>2. info[e].owner \in Nat /\ e <= h
        BY <1>2, <4>1, OpenType
      <4> QED BY <1>2, <4>1, <4>2
    <3> HIDE DEF h
    <3> QED BY <3>1, <3>2 DEF Fall
  <2> HIDE DEF h
  <2>3. open' = {e \in open : e < h} /\ WellNested' /\ ScopeStep
    BY <1>2, <2>1, <2>2, ShutSuffix
  <2>4. PoolHeld'
    <3>1. ASSUME h \in pooled PROVE open' = {}
      <4> SUFFICES ASSUME NEW e \in open' PROVE FALSE
        OBVIOUS
      <4>1. e \in open /\ e < h /\ h <= e /\ e \in Nat
        BY <2>3, <3>1, OpenType DEF PoolHeld
      <4> QED BY <1>2, <4>1
    <3>2. CASE h \in pooled
      BY <3>1, <3>2 DEF PoolHeld
    <3>3. CASE h \notin pooled
      <4>1. leased' = leased
        BY <2>1, <3>3 DEF GiveBack
      <4> QED BY <2>1, <2>3, <4>1, PoolStays
    <3> QED BY <3>2, <3>3
  <2> QED BY <1>1, <2>1, <2>3, <2>4, ReturnSolo, OpenType DEF NestStep
<1>5. CASE FinishFailed(t)
  <2>1. UNCHANGED <<pooled, leased>> /\ Recover(t, frame[t], h, {h}, FALSE, {})
    BY <1>5 DEF FinishFailed, others
  <2> HIDE DEF h
  <2>2. h \in open \union {None} /\ {h} \in SUBSET open
    BY <1>2
  <2>3. {} \in SUBSET open /\ \A e \in {} : e >= h
    OBVIOUS
  <2> QED BY <1>1, <2>1, <2>2, <2>3, NestRecover
<1> QED BY <1>3, <1>4, <1>5

\* Continuing savepoint() and a savepoint's release() and rollback().
LEMMA NestSavepoints ==
  ASSUME NestInv, NEW t \in Task,
         \/ SavepointOk(t) \/ SavepointInterrupted(t) \/ SavepointFailed(t)
         \/ SpReleaseOk(t) \/ SpRollbackOk(t) \/ SpFailed(t)
  PROVE  NestStep
<1> USE DEF NestInv
<1> DEFINE h == frame[t].h
<1>1. /\ \A u \in Task \ {t} : frame[u].at = "idle"
      /\ frame[t] \in Frames /\ FrameInv(t)
      /\ frame[t].at # "idle"
  BY Resumed DEF SavepointOk, SavepointInterrupted, SavepointFailed,
                 SpReleaseOk, SpRollbackOk, SpFailed, Resumes
<1>2. CASE SavepointOk(t)
  <2>1. /\ Construct("sp", h, frame[t].save, frame[t].reg) /\ Return(t)
        /\ current' = current /\ leased' = leased /\ pooled' = pooled
    BY <1>2 DEF SavepointOk
  <2>2. h \in open /\ IsTx(h) /\ frame[t].reg = info[h].reg
    BY <1>1, <1>2 DEF SavepointOk, Resumes, FrameInv
  <2>3. frame[t].reg = current /\ current # None /\ (Pool => leased)
    BY <2>2 DEF WellNested, PoolHeld
  <2>4. /\ "sp" \in Kinds /\ h \in Nat /\ h <= made
        /\ frame[t].save \in Saves /\ frame[t].reg \in Nat
    BY <1>1, <2>2, OpenType DEF Kinds, Frames
  <2> HIDE DEF h
  <2> QED BY <1>1, <2>1, <2>2, <2>3, <2>4, NestConstruct
<1>3. CASE SavepointInterrupted(t)
  <2>1. /\ UNCHANGED <<info, open, current, pooled, leased>>
        /\ Await(t, frame[t], "drop", "release", frame[t].save)
    BY <1>3 DEF SavepointInterrupted
  <2>2. frame'[t].at = "drop"
    BY <1>1, <2>1, AwaitSolo, OpenType
  <2>3. FrameInv(t)'
    BY <2>2 DEF FrameInv
  <2> QED BY <1>1, <2>1, <2>3, NestAwait
<1>4. CASE SavepointFailed(t)
  <2>1. UNCHANGED <<info, open, current, pooled, leased>> /\ Return(t)
    BY <1>4 DEF SavepointFailed, others
  <2> QED BY <1>1, <2>1, NestReturn
<1>5. ASSUME frame[t].at \in {"spRelease", "spRollback"}
      PROVE  /\ h \in open /\ ~IsTx(h) /\ h \in 1 .. made /\ h \in Nat
             /\ frame[t].edge = info[h].owner /\ info[h].owner \in open
             /\ info[h].owner < h /\ info[h].owner \in Nat
             /\ After(h) \union {h} = {e \in open : e >= h}
  <2>1. h \in open /\ ~IsTx(h) /\ frame[t].edge = info[h].owner
    BY <1>1, <1>5 DEF FrameInv
  <2>2. info[h].owner \in open /\ info[h].owner < h
    BY <2>1 DEF WellNested
  <2>3. h \in 1 .. made /\ h \in Nat /\ info[h].owner \in Nat
    BY <2>1, <2>2, OpenType
  <2> HIDE DEF h
  <2>4. After(h) = {e \in open : e > h}
    BY <2>1, AfterLater
  <2>5. \A e \in open : e >= h <=> e > h \/ e = h
    BY <2>3, Whole
  <2>6. After(h) \union {h} \subseteq {e \in open : e >= h}
    BY <2>1, <2>4, <2>5
  <2>7. {e \in open : e >= h} \subseteq After(h) \union {h}
    BY <2>4, <2>5
  <2> QED BY <2>1, <2>2, <2>3, <2>6, <2>7
<1>6. CASE SpReleaseOk(t)
  <2>1. /\ Shut(After(h) \union {h}, {}) /\ Return(t) /\ UNCHANGED others
        /\ frame[t].at = "spRelease"
    BY <1>6 DEF SpReleaseOk, Resumes
  <2> HIDE DEF h
  <2>2. Fall(After(h) \union {h}) = {e \in open : e >= h}
    BY <1>5, <2>1, FallSuffix
  <2>3. open' = {e \in open : e < h} /\ WellNested' /\ ScopeStep
    BY <1>5, <2>1, <2>2, ShutSuffix
  <2>4. PoolHeld'
    BY <2>1, <2>3, PoolStays DEF others
  <2> QED BY <1>1, <2>1, <2>3, <2>4, ReturnSolo, OpenType DEF NestStep
<1>7. CASE SpRollbackOk(t)
  <2>1. /\ Shut(After(h), {}) /\ Return(t) /\ UNCHANGED others
        /\ frame[t].at = "spRollback"
    BY <1>7 DEF SpRollbackOk, Resumes
  <2> HIDE DEF h
  <2>2. open' = {e \in open : e <= h} /\ WellNested' /\ ScopeStep
    BY <1>5, <2>1, ShutAfter
  <2>3. PoolHeld'
    BY <2>1, <2>2, PoolStays DEF others
  <2> QED BY <1>1, <2>1, <2>2, <2>3, ReturnSolo, OpenType DEF NestStep
<1>8. CASE SpFailed(t)
  <2> DEFINE edge == frame[t].edge
             also == After(h) \union {h}
  <2>1. /\ UNCHANGED <<pooled, leased>> /\ frame[t].at \in {"spRelease", "spRollback"}
        /\ Recover(t, frame[t], edge, {edge}, FALSE, also)
    BY <1>8 DEF SpFailed, Resumes, others
  <2>2. edge \in open /\ also \subseteq open
    BY <1>5, <2>1
  <2>3. \A e \in also : e >= edge
    <3> SUFFICES ASSUME NEW e \in also PROVE e >= edge
      OBVIOUS
    <3>1. e \in open /\ e >= h /\ edge = info[h].owner /\ edge < h
          /\ edge \in Nat /\ h \in Nat
      BY <1>5, <2>1
    <3>2. e \in Nat
      BY <3>1, OpenType
    <3> HIDE DEF h, edge, also
    <3> QED BY <3>1, <3>2
  <2> HIDE DEF h, edge, also
  <2> QED BY <1>1, <2>1, <2>2, <2>3, NestRecover
<1> QED BY <1>2, <1>3, <1>4, <1>6, <1>7, <1>8

\* A step of the server, the network or the caller changes no registry and no
\* frame but for the reply that arrives.
LEMMA NestReplies ==
  ASSUME NestInv, UNCHANGED <<registry, pooled, leased>>,
         \A u \in Task : /\ frame'[u].at = frame[u].at
                         /\ frame'[u].h = frame[u].h
                         /\ frame'[u].edge = frame[u].edge
                         /\ frame'[u].reg = frame[u].reg
                         /\ frame'[u].pool = frame[u].pool
  PROVE  NestStep
<1> USE DEF NestInv
<1>1. UNCHANGED <<info, open, current>>
  BY DEF registry
<1>2. WellNested' /\ ScopeStep /\ PoolHeld'
  BY <1>1, NestStays, PoolStays
<1>3. OneBusy'
  BY DEF OneBusy
<1>4. ASSUME NEW u \in Task PROVE FrameInv(u)'
  <2>1. FrameInv(u)
    OBVIOUS
  <2> QED BY <1>1, <2>1 DEF FrameInv, IsTx
<1> QED BY <1>2, <1>3, <1>4 DEF NestStep

\* The server, the network and the caller.
LEMMA NestOutside ==
  ASSUME NestInv,
         \/ \E t \in Task : Answer(t) \/ Cancel(t) \/ Lose(t)
         \/ CallerBegins \/ CallerEnds \/ UNCHANGED vars
  PROVE  NestStep
<1>1. CASE \E t \in Task : Answer(t) \/ Cancel(t) \/ Lose(t)
  <2>1. PICK t \in Task : Answer(t) \/ Cancel(t) \/ Lose(t)
    BY <1>1
  <2>2. \E s, ok : Answered(t, s, ok)
    BY <2>1 DEF Answer, Cancel, Lose
  <2>3. PICK r : frame' = [frame EXCEPT ![t].reply = r]
    BY <2>2 DEF Answered
  <2>4. UNCHANGED <<registry, pooled, leased>>
    BY <2>2 DEF Answered
  <2>5. frame \in [Task -> Frames]
    BY OpenType DEF NestInv
  <2>6. ASSUME NEW u \in Task
        PROVE  /\ frame'[u].at = frame[u].at /\ frame'[u].h = frame[u].h
               /\ frame'[u].edge = frame[u].edge /\ frame'[u].reg = frame[u].reg
               /\ frame'[u].pool = frame[u].pool
    <3>1. frame[u] \in Frames /\ frame[t] \in Frames
      BY <2>5
    <3>2. frame'[u] = IF u = t THEN [frame[t] EXCEPT !.reply = r] ELSE frame[u]
      BY <2>3, <2>5
    <3> QED BY <3>1, <3>2 DEF Frames
  <2> QED BY <2>4, <2>6, NestReplies
<1>2. CASE CallerBegins \/ CallerEnds \/ UNCHANGED vars
  BY <1>2, NestReplies DEF CallerBegins, CallerEnds, vars, others
<1> QED BY <1>1, <1>2

\* NestInv is inductive when one operation runs at a time.
LEMMA NestNext ==
  ASSUME Serial, NestInv, [Next]_vars
  PROVE  NestStep
<1>1. ASSUME NEW t \in Task, Starts(t) PROVE NestStep
  BY <1>1, NestStarts
<1>2. ASSUME NEW t \in Task, Continues(t) PROVE NestStep
  BY <1>2, NestEnds, NestBegins, NestFinishes, NestSavepoints DEF Continues
<1> QED BY <1>1, <1>2, NestOutside DEF Next

\* The nesting invariant holds initially, in an initial state of ScopeStack.
LEMMA NestInit == Init => NestInv /\ Scopes!ScopeInit
<1> SUFFICES ASSUME Init PROVE NestInv /\ Scopes!ScopeInit
  OBVIOUS
<1>1. TypeOK
  BY InitType
<1>2. \A t \in Task : frame[t].at = "idle"
  BY DEF Init, NoFrame
<1>3. OneBusy /\ \A t \in Task : FrameInv(t)
  BY <1>2 DEF OneBusy, FrameInv
<1>4. open = {} /\ made = 0 /\ pooled = {}
  BY DEF Init, made
<1> QED BY <1>1, <1>3, <1>4
       DEF NestInv, WellNested, PoolHeld, Scopes!ScopeInit

\* For any callers, names, bounds and faults, and for pooled and direct
\* connections: while one operation runs at a time, the handles of a connection
\* implement ScopeStack.  A handle opens inside every open one (_register of
\* the constructor), completing one closes exactly those opened inside it
\* (invalidate_after), and no recovery closes an outer handle and keeps an
\* inner one (_recover_connection).
THEOREM ScopesNestCorrect ==
  ASSUME Serial
  PROVE  Spec => ScopesNest
<1>1. Init => NestInv /\ Scopes!ScopeInit
  BY NestInit
<1>2. NestInv /\ TypeOK' /\ [Next]_vars => NestInv' /\ ScopeStep
  BY NestNext DEF NestStep, NestInv
<1>3. Spec => []TypeOK
  BY TypeCorrect
<1> QED BY <1>1, <1>2, <1>3, PTL DEF Spec, ScopesNest, Scopes!Spec, ScopeStep

\* While one operation runs at a time, every open handle is in the registry
\* that the next wrapper of the connection finds
\* (_transaction_state_for_connection): no handle escapes the invalidation.
THEOREM OneRegistryCorrect ==
  ASSUME Serial
  PROVE  Spec => []OneRegistry
<1>1. Init => NestInv
  BY NestInit
<1>2. NestInv /\ TypeOK' /\ [Next]_vars => NestInv'
  BY NestNext DEF NestStep, NestInv
<1>3. NestInv => OneRegistry
  BY DEF NestInv, WellNested, OneRegistry
<1>4. Spec => []TypeOK
  BY TypeCorrect
<1> QED BY <1>1, <1>2, <1>3, <1>4, PTL DEF Spec

=============================================================================
