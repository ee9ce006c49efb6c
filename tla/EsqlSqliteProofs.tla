-------------------------- MODULE EsqlSqliteProofs --------------------------
(***************************************************************************)
(* Proofs about an object over SQLite, for any number of queries, database *)
(* handles, dials, disconnects and faults.                                 *)
(***************************************************************************)
EXTENDS EsqlSqliteProps, SequenceTheorems, TLAPS

USE SqliteAssumption

----------------------------------------------------------------------------
(* Types *)

LEMMA HandleFree ==
  ASSUME \E h \in Handles : handles[h].file = "none"
  PROVE  FreeHandle \in Handles
  BY DEF FreeHandle

LEMMA ObjectFields ==
  ASSUME TypeOK
  PROVE  /\ esql \in EsqlRec
         /\ esql.queue \in Seq(Ids)
         /\ esql.res.rows \subseteq Ids
         /\ esql.curId \in Ids \cup {None} /\ esql.stmt \in Ids \cup {None}
         /\ esql.db \in Handles \cup {None}
  BY DEF TypeOK, EsqlRec

LEMMA PointsAre ==
  /\ ProgramPoints \subseteq Points
  /\ {"complete", "next", "error", "down", "closing", "retry",
      "loop", "ready", "result", "failed", "refused"} \subseteq Points
  BY DEF Points, ProgramPoints

LEMMA GotoTyped ==
  ASSUME TypeOK, NEW p \in Points, NEW q \in Points,
         \/ Goto(p)
         \/ run' = [at |-> p, back |-> q]
  PROVE  run' \in [at : Points, back : Points]
  BY DEF TypeOK, Goto

LEMMA SpendTyped ==
  ASSUME TypeOK, NEW k \in BudgetKinds, Can(k), Spend(k)
  PROVE  budget' \in [BudgetKinds -> Nat]
  BY DEF TypeOK, Can, Spend

LEMMA KindsAre == {"fault", "connect", "disconnect", "timeout", "callback"} \subseteq BudgetKinds
  BY DEF BudgetKinds

LEMMA CloseTyped ==
  ASSUME TypeOK, NEW p \in Points, Close(p)
  PROVE  run' \in [at : Points, back : Points] /\ crossed' \in BOOLEAN
<1>1. crossed' \in BOOLEAN
  BY DEF Close
<1>2. run' = [at |-> p, back |-> p] \/ run' = [at |-> "closing", back |-> p]
  BY DEF Close
<1> QED BY <1>1, <1>2, GotoTyped, PointsAre

LEMMA HoldsTyped ==
  ASSUME TypeOK, NEW id \in Ids, esql.db \in Handles, HoldsStatement(id)
  PROVE  handles' \in [Handles -> [file : Files, open : SUBSET Ids]]
  BY ZenonT(60) DEF TypeOK, HoldsStatement

LEMMA FinalisedTyped ==
  ASSUME TypeOK, NEW id
  PROVE  Finalised(id) \in [Handles -> [file : Files, open : SUBSET Ids]]
  BY ZenonT(60) DEF TypeOK, Finalised

LEMMA OpenedTyped ==
  ASSUME TypeOK, \E h \in Handles : handles[h].file = "none", Opened(FreeHandle)
  PROVE  handles' \in [Handles -> [file : Files, open : SUBSET Ids]]
  BY HandleFree DEF TypeOK, Opened, Files

\* The threads, as one starts, goes on or ends.
LEMMA WorkersTyped ==
  ASSUME NEW w \in [opening : Nat, opened : Nat, query : Nat]
  PROVE  /\ [w EXCEPT !.opening = @ + 1] \in [opening : Nat, opened : Nat, query : Nat]
         /\ [w EXCEPT !.query = @ + 1] \in [opening : Nat, opened : Nat, query : Nat]
         /\ w.opening > 0 => [w EXCEPT !.opening = @ - 1] \in [opening : Nat, opened : Nat, query : Nat]
         /\ w.opened > 0 => [w EXCEPT !.opened = @ - 1] \in [opening : Nat, opened : Nat, query : Nat]
         /\ w.query > 0 => [w EXCEPT !.query = @ - 1] \in [opening : Nat, opened : Nat, query : Nat]
<1>1. w.opening \in Nat /\ w.opened \in Nat /\ w.query \in Nat
  OBVIOUS
<1>2. /\ w.opening + 1 \in Nat /\ w.query + 1 \in Nat
      /\ w.opening > 0 => w.opening - 1 \in Nat
      /\ w.opened > 0 => w.opened - 1 \in Nat
      /\ w.query > 0 => w.query - 1 \in Nat
  BY <1>1
<1> QED BY <1>1, <1>2

LEMMA OpensTyped ==
  ASSUME NEW w \in [opening : Nat, opened : Nat, query : Nat], w.opening > 0
  PROVE  [w EXCEPT !.opening = @ - 1, !.opened = @ + 1] \in [opening : Nat, opened : Nat, query : Nat]
<1>1. w.opening - 1 \in Nat /\ w.opened + 1 \in Nat
  OBVIOUS
<1> QED BY <1>1

LEMMA TimersTyped ==
  ASSUME NEW s \in EsqlRec
  PROVE  /\ [s EXCEPT !.rtimers = @ + 1] \in EsqlRec
         /\ s.rtimers > 0 => [s EXCEPT !.rtimers = @ - 1] \in EsqlRec
<1>1. s.rtimers \in Nat
  BY DEF EsqlRec
<1>2. s.rtimers + 1 \in Nat /\ (s.rtimers > 0 => s.rtimers - 1 \in Nat)
  BY <1>1
<1> QED BY <1>2 DEF EsqlRec

LEMMA WorkersFields ==
  ASSUME TypeOK
  PROVE  /\ workers \in [opening : Nat, opened : Nat, query : Nat]
         /\ ended \in Seq({"end", "cancel"})
         /\ \A how \in {"end", "cancel"} : Append(ended, how) \in Seq({"end", "cancel"})
  BY DEF TypeOK

LEMMA EndsTyped ==
  ASSUME TypeOK, NEW how \in {"end", "cancel"}, WorkerEnds(how), workers.query > 0
  PROVE  workers' \in [opening : Nat, opened : Nat, query : Nat] /\ ended' \in Seq({"end", "cancel"})
  BY WorkersFields, WorkersTyped DEF WorkerEnds

LEMMA TypeInit == Init => TypeOK
<1> SUFFICES ASSUME Init PROVE TypeOK
  OBVIOUS
<1>1. esql \in EsqlRec
  BY DEF Init, EsqlRec, NoRes, None
<1>2. run \in [at : Points, back : Points]
  BY PointsAre DEF Init
<1>3. handles \in [Handles -> [file : Files, open : SUBSET Ids]]
  BY DEF Init, NoHandle, Files
<1>4. ended \in Seq({"end", "cancel"}) /\ budget \in [BudgetKinds -> Nat]
  BY DEF Init
<1>5. lastId \in Ids \cup {0} /\ callbacks \subseteq Ids /\ crossed \in BOOLEAN
  BY DEF Init
<1>6. /\ workers \in [opening : Nat, opened : Nat, query : Nat]
      /\ outcome \in [Ids -> {"none", "answer", "error", "dropped"}]
      /\ rows \in [Ids -> SUBSET Ids] /\ dialler \in {"nobody", "program", "timer"}
  BY DEF Init
<1> QED BY <1>1, <1>2, <1>3, <1>4, <1>5, <1>6 DEF TypeOK

LEMMA TypeProgram == TypeOK /\ Program => TypeOK'
<1> SUFFICES ASSUME TypeOK, Program PROVE TypeOK'
  OBVIOUS
<1> USE DEF history
<1>1. CASE Connect
  <2>1. esql' \in EsqlRec
    BY <1>1 DEF Connect, WithWorker, Named, TypeOK, EsqlRec
  <2>2. budget' \in [BudgetKinds -> Nat]
    BY <1>1, SpendTyped, KindsAre DEF Connect
  <2>3. workers' \in [opening : Nat, opened : Nat, query : Nat]
    BY <1>1, WorkersFields, WorkersTyped DEF Connect, DialStarts
  <2>4. crossed' \in BOOLEAN /\ dialler' \in {"nobody", "program", "timer"}
    BY <1>1 DEF Connect, DialStarts
  <2> QED BY <1>1, <2>1, <2>2, <2>3, <2>4 DEF Connect, TypeOK
<1>2. CASE Disconnect
  <2>1. budget' \in [BudgetKinds -> Nat]
    BY <1>2, SpendTyped, KindsAre DEF Disconnect
  <2>2. run' \in [at : Points, back : Points] /\ crossed' \in BOOLEAN
    BY <1>2, CloseTyped, PointsAre DEF Disconnect, ProgramTurn
  <2> QED BY <1>2, <2>1, <2>2 DEF Disconnect, TypeOK
<1>3. CASE TimeoutSet
  <2>1. esql' \in EsqlRec
    BY <1>3 DEF TimeoutSet, TypeOK, EsqlRec
  <2>2. budget' \in [BudgetKinds -> Nat]
    BY <1>3, SpendTyped, KindsAre DEF TimeoutSet
  <2> QED BY <1>3, <2>1, <2>2 DEF TimeoutSet, TypeOK
<1>4. CASE \E id \in Ids : QueryCallbackSet(id)
  <2>1. budget' \in [BudgetKinds -> Nat]
    BY <1>4, SpendTyped, KindsAre DEF QueryCallbackSet
  <2> QED BY <1>4, <2>1 DEF QueryCallbackSet, TypeOK
<1>5. CASE QueryStart
  <2>1. lastId + 1 \in Ids
    BY <1>5 DEF QueryStart, Accept, TypeOK, Ids
  <2>2. esql.db \in Handles
    BY <1>5 DEF QueryStart, Queryable, TypeOK, EsqlRec
  <2>3. esql' \in EsqlRec
    BY <1>5, <2>1 DEF QueryStart, Accept, WithJob, Prepared, TypeOK, EsqlRec
  <2>4. handles' \in [Handles -> [file : Files, open : SUBSET Ids]]
    BY <1>5, <2>1, <2>2, HoldsTyped DEF QueryStart
  <2> QED BY <1>5, <2>1, <2>3, <2>4 DEF QueryStart, Accept, TypeOK
<1>6. CASE QueryRefused
  <2>1. esql' \in EsqlRec
    BY <1>6 DEF QueryRefused, NotPrepared, TypeOK, EsqlRec
  <2>2. budget' \in [BudgetKinds -> Nat]
    BY <1>6, SpendTyped, KindsAre DEF QueryRefused
  <2> QED BY <1>6, <2>1, <2>2 DEF QueryRefused, TypeOK
<1>7. CASE QueryQueue
  <2>1. lastId + 1 \in Ids
    BY <1>7 DEF QueryQueue, Accept, TypeOK, Ids
  <2>2. Append(esql.queue, lastId + 1) \in Seq(Ids)
    BY <2>1, ObjectFields
  <2>3. esql' \in EsqlRec
    BY <1>7, <2>2 DEF QueryQueue, Accept, Queued, TypeOK, EsqlRec
  <2> QED BY <1>7, <2>1, <2>3 DEF QueryQueue, Accept, TypeOK
<1> QED BY <1>1, <1>2, <1>3, <1>4, <1>5, <1>6, <1>7 DEF Program

LEMMA TypeWorker == TypeOK /\ Worker => TypeOK'
<1> SUFFICES ASSUME TypeOK, Worker PROVE TypeOK'
  OBVIOUS
<1> USE DEF history
<1>1. CASE WorkerOpens
  <2>1. esql' \in EsqlRec
    BY <1>1, HandleFree DEF WorkerOpens, TypeOK, EsqlRec
  <2>2. handles' \in [Handles -> [file : Files, open : SUBSET Ids]]
    BY <1>1, OpenedTyped DEF WorkerOpens
  <2>3. workers' \in [opening : Nat, opened : Nat, query : Nat]
    BY <1>1, WorkersFields, OpensTyped DEF WorkerOpens
  <2> QED BY <1>1, <2>1, <2>2, <2>3 DEF WorkerOpens, TypeOK
<1>2. CASE WorkerSaysInit
  <2>1. esql' \in EsqlRec
    BY <1>2 DEF WorkerSaysInit, TypeOK, EsqlRec
  <2>2. ended' \in Seq({"end", "cancel"}) /\ workers' \in [opening : Nat, opened : Nat, query : Nat]
    BY <1>2, WorkersFields, WorkersTyped DEF WorkerSaysInit
  <2> QED BY <1>2, <2>1, <2>2 DEF WorkerSaysInit, TypeOK
<1>3. CASE WorkerCannotOpen
  <2>1. esql' \in EsqlRec
    BY <1>3 DEF WorkerCannotOpen, TypeOK, EsqlRec
  <2>2. workers' \in [opening : Nat, opened : Nat, query : Nat] /\ ended' \in Seq({"end", "cancel"})
    BY <1>3, WorkersFields, WorkersTyped DEF WorkerCannotOpen
  <2>3. budget' \in [BudgetKinds -> Nat]
    BY <1>3, SpendTyped, KindsAre DEF WorkerCannotOpen
  <2> QED BY <1>3, <2>1, <2>2, <2>3 DEF WorkerCannotOpen, TypeOK
<1>4. CASE WorkerRow
  <2>1. esql' \in EsqlRec
    <3>1. [made |-> TRUE, rows |-> esql.res.rows \cup {esql.stmt}]
            \in [made : BOOLEAN, rows : SUBSET Ids]
      BY <1>4, ObjectFields DEF WorkerRow
    <3>2. esql' = [esql EXCEPT !.res = [made |-> TRUE, rows |-> esql.res.rows \cup {esql.stmt}]]
      BY <1>4, ObjectFields DEF WorkerRow, EsqlRec
    <3> QED BY <3>1, <3>2 DEF TypeOK, EsqlRec
  <2> QED BY <1>4, <2>1 DEF WorkerRow, TypeOK
<1>5. CASE WorkerDone
  <2>1. esql' \in EsqlRec
    BY <1>5 DEF WorkerDone, TypeOK, EsqlRec
  <2>2. handles' \in [Handles -> [file : Files, open : SUBSET Ids]]
    BY <1>5, FinalisedTyped DEF WorkerDone
  <2>3. workers' \in [opening : Nat, opened : Nat, query : Nat] /\ ended' \in Seq({"end", "cancel"})
    BY <1>5, EndsTyped DEF WorkerDone
  <2> QED BY <1>5, <2>1, <2>2, <2>3 DEF WorkerDone, TypeOK
<1>6. CASE WorkerFails
  <2>1. esql' \in EsqlRec
    BY <1>6 DEF WorkerFails, TypeOK, EsqlRec
  <2>2. handles' \in [Handles -> [file : Files, open : SUBSET Ids]]
    BY <1>6, FinalisedTyped DEF WorkerFails
  <2>3. workers' \in [opening : Nat, opened : Nat, query : Nat] /\ ended' \in Seq({"end", "cancel"})
    BY <1>6, EndsTyped DEF WorkerFails
  <2>4. budget' \in [BudgetKinds -> Nat]
    BY <1>6, SpendTyped, KindsAre DEF WorkerFails
  <2> QED BY <1>6, <2>1, <2>2, <2>3, <2>4 DEF WorkerFails, TypeOK
<1>7. CASE WorkerFindsNone
  <2>1. workers' \in [opening : Nat, opened : Nat, query : Nat] /\ ended' \in Seq({"end", "cancel"})
    BY <1>7, EndsTyped DEF WorkerFindsNone
  <2> QED BY <1>7, <2>1 DEF WorkerFindsNone, TypeOK
<1> QED BY <1>1, <1>2, <1>3, <1>4, <1>5, <1>6, <1>7 DEF Worker

LEMMA TypeSources == TypeOK /\ Sources => TypeOK'
<1> SUFFICES ASSUME TypeOK, Sources PROVE TypeOK'
  OBVIOUS
<1> USE DEF history
<1>1. CASE WorkerEnded
  <2>1. ended' \in Seq({"end", "cancel"})
    BY <1>1 DEF WorkerEnded, TypeOK
  <2>2. esql' \in EsqlRec
    <3>1. [esql EXCEPT !.thread = FALSE] \in EsqlRec /\ [esql EXCEPT !.thread = FALSE, !.stmt = None] \in EsqlRec
      BY ObjectFields DEF EsqlRec
    <3> QED BY <1>1, <3>1 DEF WorkerEnded
  <2>3. handles' \in [Handles -> [file : Files, open : SUBSET Ids]]
    BY <1>1, FinalisedTyped DEF WorkerEnded, StatementGone, TypeOK
  <2>4. run' \in [at : Points, back : Points]
    BY <1>1, GotoTyped, PointsAre DEF WorkerEnded
  <2> QED BY <1>1, <2>1, <2>2, <2>3, <2>4 DEF WorkerEnded, TypeOK
<1>2. CASE RunJob
  <2>1. esql' \in EsqlRec
    <3>1. [esql EXCEPT !.job = FALSE] \in EsqlRec /\ WithWorker([esql EXCEPT !.job = FALSE]) \in EsqlRec
      BY ObjectFields DEF WithWorker, EsqlRec
    <3> QED BY <1>2, <3>1 DEF RunJob
  <2>2. workers' \in [opening : Nat, opened : Nat, query : Nat]
    BY <1>2, WorkersFields, WorkersTyped DEF RunJob, IoStarts
  <2>3. run' \in [at : Points, back : Points]
    BY <1>2, GotoTyped, PointsAre DEF RunJob, TypeOK
  <2> QED BY <1>2, <2>1, <2>2, <2>3 DEF RunJob, TypeOK
<1>3. CASE TimeoutFires
  <2>1. esql' \in EsqlRec
    BY <1>3 DEF TimeoutFires, TypeOK, EsqlRec
  <2>2. run' \in [at : Points, back : Points] /\ crossed' \in BOOLEAN
    BY <1>3, CloseTyped, PointsAre DEF TimeoutFires
  <2> QED BY <1>3, <2>1, <2>2 DEF TimeoutFires, TypeOK
<1>4. CASE ReconnectFires
  <2>1. esql' \in EsqlRec
    <3>1. [esql EXCEPT !.rtimers = @ - 1] \in EsqlRec
      BY <1>4, ObjectFields, TimersTyped DEF ReconnectFires
    <3> QED BY <1>4, <3>1 DEF ReconnectFires, WithWorker, EsqlRec
  <2>2. workers' \in [opening : Nat, opened : Nat, query : Nat]
    BY <1>4, WorkersFields, WorkersTyped DEF ReconnectFires, DialStarts
  <2>3. crossed' \in BOOLEAN /\ dialler' \in {"nobody", "program", "timer"}
    BY <1>4 DEF ReconnectFires, DialStarts
  <2> QED BY <1>4, <2>1, <2>2, <2>3 DEF ReconnectFires, TypeOK
<1> QED BY <1>1, <1>2, <1>3, <1>4 DEF Sources

LEMMA TypeNextQuery == TypeOK /\ NextQuery => TypeOK'
<1> SUFFICES ASSUME TypeOK, NextQuery PROVE TypeOK'
  OBVIOUS
<1> DEFINE id == Head(esql.queue)
<1>1. id \in Ids /\ Tail(esql.queue) \in Seq(Ids)
  BY ObjectFields DEF NextQuery
<1>2. Taken \in EsqlRec
  BY <1>1 DEF Taken, TypeOK, EsqlRec
<1>3. Prepared(Taken, id) \in EsqlRec /\ NotPrepared(Taken) \in EsqlRec
  BY <1>1, <1>2 DEF Prepared, NotPrepared, EsqlRec
<1>4. WithWorker(Prepared(Taken, id)) \in EsqlRec
  BY <1>3 DEF WithWorker, EsqlRec
<1> HIDE DEF id
<1>5. esql' \in EsqlRec
  BY <1>3, <1>4 DEF NextQuery, id
<1>6. handles' \in [Handles -> [file : Files, open : SUBSET Ids]]
  <2>1. CASE CanPrepare /\ HoldsStatement(id)
    BY <1>1, <2>1, ObjectFields, HoldsTyped DEF CanPrepare
  <2>2. CASE handles' = handles
    BY <2>2 DEF TypeOK
  <2> QED BY <2>1, <2>2 DEF NextQuery, id
<1>7. workers' \in [opening : Nat, opened : Nat, query : Nat]
  BY WorkersFields, WorkersTyped DEF NextQuery, IoStarts
<1>8. run' \in [at : Points, back : Points]
  BY GotoTyped, PointsAre DEF NextQuery
<1>9. budget' \in [BudgetKinds -> Nat]
  <2>1. CASE Can("fault") /\ Spend("fault")
    BY <2>1, SpendTyped, KindsAre
  <2>2. CASE budget' = budget
    BY <2>2 DEF TypeOK
  <2> QED BY <2>1, <2>2 DEF NextQuery
<1> QED BY <1>5, <1>6, <1>7, <1>8, <1>9 DEF NextQuery, history, TypeOK

LEMMA TypeChain == TypeOK /\ Chain => TypeOK'
<1> SUFFICES ASSUME TypeOK, Chain PROVE TypeOK'
  OBVIOUS
<1> USE DEF history
<1>1. CASE CloseEnds
  <2>1. esql' \in EsqlRec
    BY <1>1 DEF CloseEnds, Disconnected, TypeOK, EsqlRec, None
  <2>2. handles' \in [Handles -> [file : Files, open : SUBSET Ids]]
    BY <1>1 DEF CloseEnds, NoHandle, Files, TypeOK
  <2>3. run' \in [at : Points, back : Points]
    BY <1>1 DEF CloseEnds, TypeOK
  <2> QED BY <1>1, <2>1, <2>2, <2>3 DEF CloseEnds, TypeOK
<1>2. CASE CompleteInit
  <2>1. esql' \in EsqlRec
    BY <1>2 DEF CompleteInit, TypeOK, EsqlRec
  <2>2. run' \in [at : Points, back : Points]
    BY <1>2, GotoTyped, PointsAre DEF CompleteInit
  <2> QED BY <1>2, <2>1, <2>2 DEF CompleteInit, TypeOK
<1>3. CASE CompleteQuery
  <2>1. esql' \in EsqlRec
    BY <1>3 DEF CompleteQuery, ResGiven, NoRes, TypeOK, EsqlRec
  <2>2. run' \in [at : Points, back : Points]
    BY <1>3, GotoTyped, PointsAre DEF CompleteQuery
  <2>3. outcome' \in [Ids -> {"none", "answer", "error", "dropped"}]
    BY <1>3 DEF CompleteQuery, TypeOK
  <2>4. rows' \in [Ids -> SUBSET Ids]
    BY <1>3, ObjectFields DEF CompleteQuery, TypeOK
  <2> QED BY <1>3, <2>1, <2>2, <2>3, <2>4 DEF CompleteQuery, TypeOK
<1>4. CASE CompleteNothing
  <2>1. run' \in [at : Points, back : Points]
    BY <1>4, GotoTyped, PointsAre DEF CompleteNothing
  <2> QED BY <1>4, <2>1 DEF CompleteNothing, TypeOK
<1>5. CASE NextIdle
  <2>1. esql' \in EsqlRec
    BY <1>5 DEF NextIdle, TypeOK, EsqlRec
  <2>2. run' \in [at : Points, back : Points]
    BY <1>5, GotoTyped, PointsAre DEF NextIdle
  <2> QED BY <1>5, <2>1, <2>2 DEF NextIdle, TypeOK
<1>6. CASE NextQuery
  BY <1>6, TypeNextQuery
<1>7. CASE ErrorQuery
  <2>1. esql' \in EsqlRec
    <3>1. ResGiven(esql) \in EsqlRec
      BY ObjectFields DEF ResGiven, NoRes, EsqlRec
    <3> QED BY <1>7, <3>1, ObjectFields DEF ErrorQuery
  <2>2. run' \in [at : Points, back : Points]
    BY <1>7, GotoTyped, PointsAre DEF ErrorQuery
  <2>3. outcome' \in [Ids -> {"none", "answer", "error", "dropped"}]
    <3>1. outcome \in [Ids -> {"none", "answer", "error", "dropped"}]
      BY DEF TypeOK
    <3>2. \A x \in {"error", "dropped"} :
            [outcome EXCEPT ![esql.curId] = x] \in [Ids -> {"none", "answer", "error", "dropped"}]
      BY <3>1
    <3>3. [outcome EXCEPT ![esql.curId] = IF @ = "none" THEN "dropped" ELSE @]
            \in [Ids -> {"none", "answer", "error", "dropped"}]
      BY <3>1
    <3> QED BY <1>7, <3>2, <3>3 DEF ErrorQuery
  <2> QED BY <1>7, <2>1, <2>2, <2>3 DEF ErrorQuery, TypeOK
<1>8. CASE ErrorOther
  <2>1. run' \in [at : Points, back : Points]
    BY <1>8, GotoTyped, PointsAre DEF ErrorOther
  <2> QED BY <1>8, <2>1 DEF ErrorOther, TypeOK
<1>9. CASE Down
  <2>1. run' \in [at : Points, back : Points] /\ crossed' \in BOOLEAN
    BY <1>9, CloseTyped, PointsAre DEF Down
  <2> QED BY <1>9, <2>1 DEF Down, TypeOK
<1>10. CASE Retry
  <2>1. esql' \in EsqlRec
    <3>1. esql' = [esql EXCEPT !.rtimers = @ + 1] \/ esql' = [esql EXCEPT !.rtimers = @]
      BY <1>10 DEF Retry
    <3> QED BY <3>1, ObjectFields, TimersTyped DEF EsqlRec
  <2>2. run' \in [at : Points, back : Points]
    BY <1>10, PointsAre DEF Retry
  <2> QED BY <1>10, <2>1, <2>2 DEF Retry, TypeOK
<1>11. CASE CbReturns
  <2>1. run' \in [at : Points, back : Points]
    BY <1>11, GotoTyped, PointsAre DEF CbReturns
  <2>2. callbacks' \subseteq Ids
    BY <1>11 DEF CbReturns, TypeOK
  <2> QED BY <1>11, <2>1, <2>2 DEF CbReturns, TypeOK
<1> QED BY <1>1, <1>2, <1>3, <1>4, <1>5, <1>6, <1>7, <1>8, <1>9, <1>10, <1>11 DEF Chain

LEMMA TypeStep == TypeOK /\ [Next]_vars => TypeOK'
<1>1. TypeOK /\ UNCHANGED vars => TypeOK'
  BY DEF TypeOK, vars
<1> QED BY <1>1, TypeProgram, TypeWorker, TypeSources, TypeChain DEF Next

\* Every variable keeps its type: whoever writes the object, the main thread or
\* a worker, and a worker that opens a file takes a handle that is free.
THEOREM TypeCorrect == Spec => []TypeOK
  BY TypeInit, TypeStep, PTL DEF Spec

----------------------------------------------------------------------------
(* The line of queries *)

\* What the main thread does next, or will when esql_disconnect has returned.
Here == IF run.at = "closing" THEN run.back ELSE run.at

\* The query under way has no outcome yet.
Running == esql.current = "query" /\ outcome[esql.curId] = "none"

Increasing(q) == \A i, j \in DOMAIN q : i < j => q[i] < q[j]

\* Queued queries are in the order of their identifiers, have no outcome and come
\* after the query under way; an object that does nothing has none.
Line ==
  /\ Increasing(esql.queue)
  /\ \A id \in InQueue : id <= lastId /\ outcome[id] = "none"
  /\ esql.current = "query" =>
       /\ esql.curId \in Ids /\ esql.curId <= lastId
       /\ \A id \in InQueue : esql.curId < id
  /\ \A id \in Ids : outcome[id] # "none" => id <= lastId
  /\ esql.current = "none" => esql.queue = <<>>

\* Where the main thread is tells whether the query under way has its outcome,
\* though the workers write what the object is doing.
Control ==
  /\ Here = "ready" => esql.current = "init"
  /\ Here \in {"result", "failed"} => esql.current # "none"
  /\ Here \in {"result", "failed", "next"} => ~Running
  /\ run.back \in ProgramPoints \cup {"retry"}

LineInv == TypeOK /\ Line /\ Control

\* What a step does to the queries: nothing, but the one under way may be forgotten,
Rests ==
  /\ lastId' = lastId /\ esql'.queue = esql.queue
  /\ esql'.current = "query" => esql.current = "query" /\ esql'.curId = esql.curId
  /\ esql'.current = "none" => esql.current = "none" \/ esql.queue = <<>>
  /\ \A id \in Ids : outcome'[id] = outcome[id]

\* or one is accepted and is under way at once,
Starts ==
  /\ lastId + 1 \in Ids /\ lastId' = lastId + 1 /\ outcome' = outcome
  /\ esql.current = "none" /\ esql'.queue = esql.queue
  /\ esql'.current = "query" /\ esql'.curId = lastId + 1

\* or is accepted and queued,
Enters ==
  /\ lastId + 1 \in Ids /\ lastId' = lastId + 1 /\ outcome' = outcome
  /\ esql.current # "none" /\ esql'.queue = Append(esql.queue, lastId + 1)
  /\ esql'.current = esql.current /\ esql'.curId = esql.curId

\* or the first of the queue is taken from it,
Takes ==
  /\ lastId' = lastId /\ outcome' = outcome
  /\ ~Running /\ esql.queue # <<>> /\ esql'.queue = Tail(esql.queue)
  /\ esql'.current = "query" /\ esql'.curId = Head(esql.queue)

\* or the one under way has its outcome.
Ends ==
  /\ lastId' = lastId /\ esql'.queue = esql.queue
  /\ esql.current = "query" /\ esql'.current = "query" /\ esql'.curId = esql.curId
  /\ outcome'[esql.curId] # "none"
  /\ \A id \in Ids \ {esql.curId} : outcome'[id] = outcome[id]

Effect == Rests \/ Starts \/ Enters \/ Takes \/ Ends

LEMMA IncreasingAppend ==
  ASSUME NEW q \in Seq(Ids), NEW id \in Ids, Increasing(q), \A i \in DOMAIN q : q[i] < id
  PROVE  Increasing(Append(q, id))
<1> DEFINE r == Append(q, id)
<1>1. /\ DOMAIN r = DOMAIN q \cup {Len(q) + 1} /\ r[Len(q) + 1] = id
      /\ \A i \in DOMAIN q : r[i] = q[i] /\ i \in Nat /\ i < Len(q) + 1 /\ Len(q) \in Nat
  OBVIOUS
<1> HIDE DEF r
<1>2. Increasing(r)
  BY <1>1 DEF Increasing
<1> QED BY <1>2 DEF r

LEMMA AppendMembers ==
  ASSUME NEW q \in Seq(Ids), NEW id \in Ids
  PROVE  {Append(q, id)[i] : i \in DOMAIN Append(q, id)} = {q[i] : i \in DOMAIN q} \cup {id}
<1> DEFINE r == Append(q, id)
<1>1. /\ DOMAIN r = DOMAIN q \cup {Len(q) + 1} /\ r[Len(q) + 1] = id
      /\ \A i \in DOMAIN q : r[i] = q[i]
  OBVIOUS
<1> HIDE DEF r
<1>2. {r[i] : i \in DOMAIN r} = {q[i] : i \in DOMAIN q} \cup {id}
  BY <1>1
<1> QED BY <1>2 DEF r

LEMMA TailMembers ==
  ASSUME NEW q \in Seq(Ids), q # <<>>, Increasing(q)
  PROVE  /\ Increasing(Tail(q)) /\ Head(q) \in {q[i] : i \in DOMAIN q}
         /\ \A i \in DOMAIN Tail(q) : Head(q) < Tail(q)[i]
         /\ {Tail(q)[i] : i \in DOMAIN Tail(q)} = {q[i] : i \in DOMAIN q} \ {Head(q)}
<1> DEFINE r == Tail(q)
<1>1. /\ Len(q) \in Nat \ {0} /\ DOMAIN q = 1 .. Len(q) /\ DOMAIN r = 1 .. (Len(q) - 1)
      /\ \A i \in DOMAIN r : r[i] = q[i + 1]
      /\ Head(q) = q[1]
  OBVIOUS
<1>2. \A i \in DOMAIN q : q[i] \in Nat
  BY DEF Ids
<1> HIDE DEF r
<1>3. \A i, j \in DOMAIN r : i < j => r[i] < r[j]
  BY <1>1, SMTT(60) DEF Increasing
<1>4. \A i \in DOMAIN r : Head(q) < r[i] /\ r[i] \in {q[j] : j \in DOMAIN q}
  BY <1>1 DEF Increasing
<1>5. ASSUME NEW j \in DOMAIN q, q[j] # Head(q) PROVE \E i \in DOMAIN r : r[i] = q[j]
  <2>1. j - 1 \in DOMAIN r /\ r[j - 1] = q[j]
    BY <1>1, <1>5
  <2> QED BY <2>1
<1>6. \A i \in DOMAIN r : r[i] # Head(q)
  BY <1>1, <1>2, <1>4
<1>7. {r[i] : i \in DOMAIN r} = {q[i] : i \in DOMAIN q} \ {Head(q)}
  BY <1>4, <1>5, <1>6
<1>8. Head(q) \in {q[i] : i \in DOMAIN q}
  BY <1>1
<1> QED BY <1>3, <1>4, <1>7, <1>8 DEF r, Increasing
\* What that does to the line.
LEMMA QueueMembers == ASSUME TypeOK PROVE InQueue \subseteq Ids
  BY ObjectFields DEF InQueue

LEMMA RestsLine == ASSUME LineInv, TypeOK', Rests PROVE Line'
<1>1. InQueue' = InQueue
  BY DEF Rests, InQueue
<1> QED BY <1>1, QueueMembers DEF LineInv, Line, Rests

LEMMA StartsLine == ASSUME LineInv, TypeOK', Starts PROVE Line'
<1>1. InQueue' = {} /\ esql'.queue = <<>>
  BY DEF Starts, InQueue, LineInv, Line
<1>2. lastId \in Nat
  BY DEF LineInv, TypeOK, Ids
<1> QED BY <1>1, <1>2 DEF LineInv, Line, Starts, Increasing, Ids

LEMMA EntersLine == ASSUME LineInv, TypeOK', Enters PROVE Line'
<1>1. PICK id \in Ids : id = lastId + 1
  BY DEF Enters
<1>2. lastId \in Nat /\ lastId' = id
  BY <1>1 DEF LineInv, TypeOK, Ids, Enters
<1>3. esql.queue \in Seq(Ids) /\ esql'.queue = Append(esql.queue, id)
  BY <1>1, ObjectFields DEF Enters, LineInv
<1>4. InQueue' = InQueue \cup {id}
  BY <1>3, AppendMembers, SMTT(60) DEF InQueue
<1>5. \A i \in InQueue : i <= lastId /\ outcome[i] = "none"
  BY DEF LineInv, Line
<1>6. Increasing(esql'.queue)
  <2>1. \A i \in DOMAIN esql.queue : esql.queue[i] \in InQueue
    BY DEF InQueue
  <2>2. \A i \in InQueue : i < id
    BY <1>1, <1>2, <1>5, QueueMembers DEF LineInv, Ids
  <2> QED BY <1>3, <2>1, <2>2, IncreasingAppend DEF LineInv, Line
<1>7. \A i \in InQueue' : i <= id /\ outcome'[i] = "none"
  BY <1>1, <1>2, <1>4, <1>5, QueueMembers DEF LineInv, Line, Enters, Ids
<1>8. esql'.current = "query" =>
        esql'.curId \in Ids /\ esql'.curId <= id /\ \A i \in InQueue' : esql'.curId < i
  BY <1>1, <1>2, <1>4 DEF LineInv, Line, Enters, Ids
<1>9. \A i \in Ids : outcome'[i] # "none" => i <= id
  BY <1>1, <1>2 DEF LineInv, Line, Enters, Ids
<1> QED BY <1>2, <1>6, <1>7, <1>8, <1>9 DEF Line, Enters

LEMMA TakesLine == ASSUME LineInv, TypeOK', Takes PROVE Line'
<1>1. PICK q \in Seq(Ids) : q = esql.queue /\ q # <<>> /\ Increasing(q)
  BY ObjectFields DEF LineInv, Line, Takes
<1>2. PICK id \in Ids : id = Head(q)
  BY <1>1
<1>3. /\ InQueue = {q[i] : i \in DOMAIN q}
      /\ InQueue' = {Tail(q)[i] : i \in DOMAIN Tail(q)}
      /\ esql'.queue = Tail(q) /\ esql'.curId = id /\ esql'.current = "query"
  BY <1>1, <1>2 DEF InQueue, Takes
<1>4. /\ Increasing(esql'.queue) /\ id \in InQueue
      /\ InQueue' = InQueue \ {id}
      /\ \A i \in InQueue' : id < i
  BY <1>1, <1>2, <1>3, TailMembers
<1> QED BY <1>3, <1>4 DEF LineInv, Line, Takes

LEMMA EndsLine == ASSUME LineInv, TypeOK', Ends PROVE Line'
<1>1. InQueue' = InQueue
  BY DEF Ends, InQueue
<1>2. \A id \in InQueue : id \in Ids /\ id # esql.curId
  BY QueueMembers DEF LineInv, Line, Ends, Ids
<1> QED BY <1>1, <1>2 DEF LineInv, Line, Ends

LEMMA LineStep == LineInv /\ TypeOK' /\ Effect => Line'
  BY RestsLine, StartsLine, EntersLine, TakesLine, EndsLine DEF Effect
\* Each action, by what it does to the queries and where it leaves the main thread.
LEMMA HereStays == run' = run => Here' = Here
  BY DEF Here

LEMMA HereAfterClose ==
  ASSUME TypeOK, NEW p \in Points \ {"closing"}, Close(p)
  PROVE  Here' = p /\ run'.back = p
  BY DEF Close, Here

LEMMA HereAfterGoto ==
  ASSUME TypeOK, NEW p \in Points \ {"closing"}, Goto(p)
  PROVE  Here' = p /\ run'.at = p /\ run'.back = run.back
  BY DEF TypeOK, Goto, Here

LEMMA HereAtPoint == run.at # "closing" => Here = run.at
  BY DEF Here

\* A step that moves no query and leaves the main thread where it is.
LEMMA StaysControl ==
  ASSUME LineInv, Rests, Here' = Here, run'.back = run.back,
         esql'.current = esql.current \/ esql'.current = "init",
         esql'.current = "query" => esql.curId \in Ids
  PROVE  Control'
  BY DEF LineInv, Line, Control, Rests, Running

LEMMA ProgramEffect == LineInv /\ Program => Effect /\ Control'
<1> SUFFICES ASSUME LineInv, Program PROVE Effect /\ Control'
  OBVIOUS
<1>1. ASSUME Connect \/ Disconnect \/ TimeoutSet \/ (\E id \in Ids : QueryCallbackSet(id)) \/ QueryRefused
      PROVE  Rests /\ esql'.current = esql.current
  BY <1>1, ObjectFields
     DEF Connect, Disconnect, TimeoutSet, QueryCallbackSet, QueryRefused, NotPrepared, WithWorker,
         Named, history, LineInv, Rests, EsqlRec
<1>2. CASE Connect \/ TimeoutSet \/ (\E id \in Ids : QueryCallbackSet(id)) \/ QueryRefused
  <2>1. run' = run
    BY <1>2 DEF Connect, TimeoutSet, QueryCallbackSet, QueryRefused
  <2> QED BY <1>1, <1>2, <2>1, HereStays, StaysControl DEF Effect, LineInv, Line
<1>3. CASE Disconnect
  <2>1. run.at \in ProgramPoints /\ Close(run.at)
    BY <1>3 DEF Disconnect, ProgramTurn
  <2>2. Here' = Here /\ run'.back \in ProgramPoints
    BY <2>1, HereAfterClose, HereAtPoint, PointsAre DEF LineInv, ProgramPoints
  <2>3. Rests /\ esql' = esql /\ outcome' = outcome
    BY <1>1, <1>3 DEF Disconnect
  <2> QED BY <2>2, <2>3 DEF Effect, LineInv, Control, Running
<1>4. CASE QueryStart
  <2>1. Starts
    BY <1>4, ObjectFields
       DEF QueryStart, Accept, Busy, WithJob, Prepared, history, LineInv, TypeOK, EsqlRec, Starts, Ids
  <2>2. run' = run /\ Here' = Here /\ Here \in ProgramPoints
    BY <1>4, HereStays, HereAtPoint DEF QueryStart, Accept, Queryable, ProgramTurn, ProgramPoints
  <2>3. Here \notin {"ready", "result", "failed", "next"}
    BY <2>1, <2>2 DEF Starts, LineInv, Control, ProgramPoints
  <2> QED BY <2>1, <2>2, <2>3 DEF Effect, LineInv, Control
<1>5. CASE QueryQueue
  <2>1. Enters
    BY <1>5, ObjectFields, SMTT(60)
       DEF QueryQueue, Accept, Busy, Queued, history, LineInv, TypeOK, EsqlRec, Enters, Ids
  <2>2. run' = run /\ Here' = Here
    BY <1>5, HereStays DEF QueryQueue, Accept
  <2> QED BY <2>1, <2>2 DEF Effect, Enters, LineInv, Control, Running
<1> QED BY <1>2, <1>3, <1>4, <1>5 DEF Program

LEMMA WorkerEffect == LineInv /\ Worker => Effect /\ Control'
<1> SUFFICES ASSUME LineInv, Worker PROVE Effect /\ Control'
  OBVIOUS
<1>1. run' = run
  BY DEF Worker, WorkerOpens, WorkerSaysInit, WorkerCannotOpen, WorkerRow, WorkerDone, WorkerFails,
         WorkerFindsNone, history
<1>2. Rests /\ (esql'.current = esql.current \/ esql'.current = "init")
  BY ObjectFields
     DEF Worker, WorkerOpens, WorkerSaysInit, WorkerCannotOpen, WorkerRow, WorkerDone, WorkerFails,
         WorkerFindsNone, history, LineInv, Rests, EsqlRec
<1> QED BY <1>1, <1>2, HereStays, StaysControl DEF Effect, Rests, LineInv, Line

LEMMA SourcesEffect == LineInv /\ Sources => Effect /\ Control'
<1> SUFFICES ASSUME LineInv, Sources PROVE Effect /\ Control'
  OBVIOUS
<1>1. Rests /\ esql'.current = esql.current /\ esql'.curId = esql.curId
  BY ObjectFields
     DEF Sources, WorkerEnded, RunJob, TimeoutFires, ReconnectFires, WithWorker, history, LineInv,
         Rests, EsqlRec
<1>2. run.at = "loop"
  BY DEF Sources, WorkerEnded, RunJob, TimeoutFires, ReconnectFires, At
<1>3. CASE WorkerEnded \/ RunJob \/ ReconnectFires
  <2>1. run' = run \/ Goto("complete") \/ Goto("error")
    BY <1>3 DEF WorkerEnded, RunJob, ReconnectFires
  <2>2. Here' \in {"loop", "complete", "error"} /\ run'.back = run.back
    BY <1>2, <2>1, HereStays, HereAtPoint, HereAfterGoto, PointsAre DEF LineInv
  <2> QED BY <1>1, <2>2 DEF Effect, LineInv, Control
<1>4. CASE TimeoutFires
  <2>1. Here' = "retry" /\ run'.back = "retry"
    BY <1>4, HereAfterClose, PointsAre DEF TimeoutFires, LineInv
  <2> QED BY <1>1, <2>1 DEF Effect, Control
<1> QED BY <1>3, <1>4 DEF Sources

LEMMA ChainEffect == LineInv /\ Chain => Effect /\ Control'
<1> SUFFICES ASSUME LineInv, Chain PROVE Effect /\ Control'
  OBVIOUS
<1>1. CASE CloseEnds
  <2>1. Rests /\ esql'.current = esql.current
    BY <1>1, ObjectFields DEF CloseEnds, Disconnected, history, LineInv, Rests, EsqlRec
  <2>2. run.at = "closing" /\ Here = run.back /\ Here' = Here /\ run'.back = run.back
    BY <1>1 DEF CloseEnds, At, Here, LineInv, Control, ProgramPoints
  <2> QED BY <2>1, <2>2, StaysControl DEF Effect, LineInv, Line
<1>2. CASE CompleteInit
  <2>1. Rests /\ esql'.current = "init"
    BY <1>2, ObjectFields DEF CompleteInit, history, LineInv, Rests, EsqlRec
  <2>2. Here' \in {"ready", "next"} /\ run'.back = run.back
    BY <1>2, HereAfterGoto, PointsAre DEF CompleteInit, LineInv
  <2> QED BY <2>1, <2>2 DEF Effect, LineInv, Control, Running
<1>3. CASE CompleteQuery
  <2>1. Ends
    BY <1>3, ObjectFields
       DEF CompleteQuery, ResGiven, LineInv, Line, TypeOK, EsqlRec, Ends
  <2>2. Here' \in {"result", "next"} /\ run'.back = run.back
    BY <1>3, HereAfterGoto, PointsAre DEF CompleteQuery, LineInv
  <2> QED BY <2>1, <2>2 DEF Effect, Ends, LineInv, Control, Running
<1>4. CASE CompleteNothing
  <2>1. Rests /\ esql'.current = "none"
    BY <1>4 DEF CompleteNothing, history, Rests
  <2>2. Here' = "next" /\ run'.back = run.back
    BY <1>4, HereAfterGoto, PointsAre DEF CompleteNothing, LineInv
  <2> QED BY <2>1, <2>2 DEF Effect, LineInv, Control, Running
<1>5. CASE NextIdle
  <2>1. Rests
    BY <1>5, ObjectFields DEF NextIdle, history, LineInv, Rests, EsqlRec
  <2>2. Here' = "loop" /\ run'.back = run.back
    BY <1>5, HereAfterGoto, PointsAre DEF NextIdle, LineInv
  <2> QED BY <2>1, <2>2 DEF Effect, LineInv, Control
<1>6. CASE NextQuery
  <2>1. Here = "next"
    BY <1>6, HereAtPoint DEF NextQuery, At
  <2>2. Taken \in EsqlRec /\ Taken.current = "query" /\ Taken.curId = Head(esql.queue) /\ Taken.queue = Tail(esql.queue)
    <3>1. Head(esql.queue) \in Ids /\ Tail(esql.queue) \in Seq(Ids)
      BY <1>6, ObjectFields DEF NextQuery, LineInv
    <3> QED BY <3>1, ObjectFields DEF Taken, EsqlRec, LineInv
  <2>3. esql'.current = "query" /\ esql'.curId = Head(esql.queue) /\ esql'.queue = Tail(esql.queue)
    BY <1>6, <2>2 DEF NextQuery, Prepared, NotPrepared, WithWorker, EsqlRec
  <2>4. Takes
    BY <1>6, <2>1, <2>3 DEF NextQuery, history, LineInv, Control, Takes
  <2>5. Here' \in {"loop", "error"} /\ run'.back = run.back
    BY <1>6, HereAfterGoto, PointsAre DEF NextQuery, LineInv
  <2> QED BY <2>4, <2>5 DEF Effect, LineInv, Control
<1>7. CASE ErrorQuery
  <2>1. Ends
    <3>1. esql.curId \in Ids /\ outcome \in [Ids -> {"none", "answer", "error", "dropped"}]
      BY <1>7 DEF ErrorQuery, LineInv, Line, TypeOK
    <3>2. esql'.current = "query" /\ esql'.curId = esql.curId /\ esql'.queue = esql.queue /\ lastId' = lastId
      BY <1>7, ObjectFields DEF ErrorQuery, ResGiven, LineInv, EsqlRec
    <3>3. outcome'[esql.curId] # "none" /\ \A id \in Ids \ {esql.curId} : outcome'[id] = outcome[id]
      BY <1>7, <3>1 DEF ErrorQuery
    <3> QED BY <1>7, <3>2, <3>3 DEF ErrorQuery, Ends
  <2>2. Here' \in {"failed", "next"} /\ run'.back = run.back
    BY <1>7, HereAfterGoto, PointsAre DEF ErrorQuery, LineInv
  <2> QED BY <2>1, <2>2 DEF Effect, Ends, LineInv, Control, Running
<1>8. CASE ErrorOther
  <2>1. Rests
    BY <1>8 DEF ErrorOther, history, Rests
  <2>2. Here' \in {"refused", "down"} /\ run'.back = run.back
    BY <1>8, HereAfterGoto, PointsAre DEF ErrorOther, LineInv
  <2> QED BY <2>1, <2>2 DEF Effect, LineInv, Control
<1>9. CASE Down
  <2>1. Rests
    BY <1>9 DEF Down, Rests
  <2>2. Here' = "retry" /\ run'.back = "retry"
    BY <1>9, HereAfterClose, PointsAre DEF Down, LineInv
  <2> QED BY <2>1, <2>2 DEF Effect, Control
<1>10. CASE Retry
  <2>1. Rests
    BY <1>10, ObjectFields DEF Retry, history, LineInv, Rests, EsqlRec
  <2>2. Here' = "loop" /\ run'.back = "loop"
    BY <1>10 DEF Retry, Here
  <2> QED BY <2>1, <2>2 DEF Effect, Control, ProgramPoints
<1>11. CASE CbReturns
  <2>1. Rests /\ esql' = esql /\ outcome' = outcome
    BY <1>11 DEF CbReturns, history, Rests
  <2>2. /\ \/ Here \in {"ready", "result", "failed"} /\ Here' = "next"
           \/ Here' = "down"
        /\ run'.back = run.back
    BY <1>11, HereAfterGoto, HereAtPoint, PointsAre DEF CbReturns, At, LineInv
  <2> QED BY <2>1, <2>2 DEF Effect, LineInv, Control, Running
<1> QED BY <1>1, <1>2, <1>3, <1>4, <1>5, <1>6, <1>7, <1>8, <1>9, <1>10, <1>11 DEF Chain

LEMMA EffectStep == LineInv /\ [Next]_vars => Effect /\ Control'
<1>1. LineInv /\ UNCHANGED vars => Effect /\ Control'
  BY DEF vars, Effect, Rests, LineInv, Control, Here, Running
<1> QED BY <1>1, ProgramEffect, WorkerEffect, SourcesEffect, ChainEffect DEF Next

LEMMA LineInit == Init => LineInv
<1> SUFFICES ASSUME Init PROVE LineInv
  OBVIOUS
<1>1. esql.queue = <<>> /\ InQueue = {} /\ esql.current = "none"
  BY DEF Init, InQueue
<1>2. \A id \in Ids : outcome[id] = "none"
  BY DEF Init
<1>3. Control
  BY DEF Init, Control, Here, Running, ProgramPoints
<1> QED BY <1>1, <1>2, <1>3, TypeInit DEF LineInv, Line, Increasing

LEMMA LineInvariant == Spec => []LineInv
<1>1. LineInv /\ [Next]_vars => LineInv'
  BY TypeStep, EffectStep, LineStep DEF LineInv
<1> QED BY <1>1, LineInit, PTL DEF Spec

----------------------------------------------------------------------------
(* The object implements the query service *)

Waits(id) == id \in InQueue \/ (esql.current = "query" /\ esql.curId = id)

\* Where a query is for the program that made it.
Standing(id) == IF id > lastId THEN "none" ELSE IF outcome[id] # "none" THEN "ended"
                ELSE IF Waits(id) THEN "waiting" ELSE "lost"

LEMMA OutcomeIs == Outcome = [id \in Ids |-> Standing(id)]
  BY DEF Outcome, Standing, Waits, InFlight

LEMMA OutcomeNext == Outcome' = [id \in Ids |-> Standing(id)']
  BY DEF Outcome, Standing, Waits, InFlight

LEMMA Stutters ==
  ASSUME \A id \in Ids : Standing(id)' = Standing(id)
  PROVE  UNCHANGED Outcome
  BY OutcomeIs, OutcomeNext

LEMMA Accepts ==
  ASSUME NEW id \in Ids, Standing(id) = "none",
         \A older \in 1 .. (id - 1) : Standing(older) # "none",
         Standing(id)' = "waiting", \A i \in Ids \ {id} : Standing(i)' = Standing(i)
  PROVE  Service!Accept
<1>1. \A older \in 1 .. (id - 1) : older \in Ids
  BY DEF Ids
<1>2. Outcome' = [Outcome EXCEPT ![id] = "waiting"]
  BY OutcomeIs, OutcomeNext
<1> QED BY OutcomeIs, <1>1, <1>2 DEF Service!Accept, Ids

LEMMA Leaves ==
  ASSUME NEW id \in Ids, NEW how, Standing(id) = "waiting",
         \A older \in 1 .. (id - 1) : Standing(older) # "waiting",
         Standing(id)' = how, \A i \in Ids \ {id} : Standing(i)' = Standing(i)
  PROVE  Service!Leave(how)
<1>1. \A older \in 1 .. (id - 1) : older \in Ids
  BY DEF Ids
<1>2. Outcome' = [Outcome EXCEPT ![id] = how]
  BY OutcomeIs, OutcomeNext
<1> QED BY OutcomeIs, <1>1, <1>2 DEF Service!Leave, Ids

\* What waits is behind the query under way.
LEMMA RunsFirst ==
  ASSUME LineInv, NEW id \in Ids, esql.current = "query", esql.curId = id, outcome[id] = "none"
  PROVE  /\ Standing(id) = "waiting"
         /\ \A older \in 1 .. (id - 1) : Standing(older) # "waiting"
<1>1. Standing(id) = "waiting"
  BY DEF Standing, Waits, LineInv, Line, TypeOK, Ids
<1>2. \A older \in 1 .. (id - 1) : ~Waits(older)
  BY DEF Waits, LineInv, Line, Ids
<1> QED BY <1>1, <1>2 DEF Standing

LEMMA AcceptedNext ==
  ASSUME LineInv, NEW id \in Ids, id = lastId + 1, lastId' = id, outcome' = outcome,
         Waits(id)', \A i \in Ids \ {id} : Waits(i)' = Waits(i)
  PROVE  Service!Accept
<1>1. lastId \in Nat
  BY DEF LineInv, TypeOK, Ids
<1>2. Standing(id) = "none" /\ \A older \in 1 .. (id - 1) : Standing(older) # "none"
  BY <1>1 DEF Standing
<1>3. Standing(id)' = "waiting"
  BY <1>1 DEF Standing, LineInv, Line
<1>4. ASSUME NEW i \in Ids \ {id} PROVE Standing(i)' = Standing(i)
  <2>1. i \in Nat /\ i # id
    BY <1>4 DEF Ids
  <2>2. i > id <=> i > lastId
    BY <1>1, <2>1
  <2> QED BY <2>2 DEF Standing
<1> QED BY <1>2, <1>3, <1>4, Accepts

\* Only a step that says something else over a query under way forgets it.
LEMMA ServiceStepKeeps ==
  ASSUME LineInv, Effect, ~(Running /\ ~(esql'.current = "query"))
  PROVE  Service!Accept \/ Service!End \/ UNCHANGED Outcome
<1>1. CASE Rests
  <2>1. InQueue' = InQueue /\ lastId' = lastId
    BY <1>1 DEF Rests, InQueue
  <2>2. \A i \in Ids : Standing(i)' = Standing(i)
    BY <1>1, <2>1 DEF Rests, Standing, Waits, Running
  <2> QED BY <2>2, Stutters
<1>2. CASE Starts
  <2>1. PICK id \in Ids : id = lastId + 1 /\ lastId' = id
    BY <1>2 DEF Starts
  <2>2. InQueue' = InQueue
    BY <1>2 DEF Starts, InQueue
  <2> QED BY <1>2, <2>1, <2>2, AcceptedNext DEF Starts, Waits
<1>3. CASE Enters
  <2>1. PICK id \in Ids : id = lastId + 1 /\ lastId' = id
    BY <1>3 DEF Enters
  <2>2. InQueue' = InQueue \cup {id}
    <3> DEFINE q == esql.queue
    <3>1. q \in Seq(Ids) /\ esql'.queue = Append(q, id)
      BY <1>3, <2>1, ObjectFields DEF Enters, LineInv
    <3>2. /\ InQueue = {q[i] : i \in DOMAIN q}
          /\ InQueue' = {Append(q, id)[i] : i \in DOMAIN Append(q, id)}
      BY <3>1 DEF InQueue
    <3> HIDE DEF q
    <3> QED BY <3>1, <3>2, AppendMembers
  <2> QED BY <1>3, <2>1, <2>2, AcceptedNext DEF Enters, Waits
<1>4. CASE Takes
  <2>1. PICK id \in Ids : id = Head(esql.queue)
    BY <1>4, ObjectFields DEF Takes, LineInv
  <2>2. id \in InQueue /\ InQueue' = InQueue \ {id}
    <3> DEFINE q == esql.queue
    <3>1. q \in Seq(Ids) /\ q # <<>> /\ Increasing(q)
      BY <1>4, ObjectFields DEF Takes, LineInv, Line
    <3>2. esql'.queue = Tail(q) /\ id = Head(q)
      BY <1>4, <2>1 DEF Takes
    <3>3. /\ InQueue = {q[i] : i \in DOMAIN q}
          /\ InQueue' = {Tail(q)[i] : i \in DOMAIN Tail(q)}
      BY <3>2 DEF InQueue
    <3> HIDE DEF q
    <3>4. Head(q) \in {q[i] : i \in DOMAIN q}
      BY <3>1, TailMembers
    <3>5. {Tail(q)[i] : i \in DOMAIN Tail(q)} = {q[i] : i \in DOMAIN q} \ {Head(q)}
      BY <3>1, TailMembers
    <3> QED BY <3>2, <3>3, <3>4, <3>5
  <2>3. \A i \in Ids : Standing(i)' = Standing(i)
    BY <1>4, <2>1, <2>2 DEF Takes, Running, Standing, Waits
  <2> QED BY <2>3, Stutters
<1>5. CASE Ends
  <2>1. PICK id \in Ids : esql.current = "query" /\ esql.curId = id
    BY <1>5 DEF Ends, LineInv, Line
  <2>2. InQueue' = InQueue
    BY <1>5 DEF Ends, InQueue
  <2>3. \A i \in Ids \ {id} : Standing(i)' = Standing(i)
    BY <1>5, <2>1, <2>2 DEF Ends, Standing, Waits
  <2>4. Standing(id)' = "ended"
    BY <1>5, <2>1 DEF Ends, Standing, LineInv, Line, TypeOK, Ids
  <2>5. CASE outcome[id] = "none"
    BY <2>1, <2>3, <2>4, <2>5, RunsFirst, Leaves DEF Service!End
  <2>6. CASE outcome[id] # "none"
    <3>1. Standing(id) = "ended"
      BY <2>1, <2>6 DEF Standing, LineInv, Line, TypeOK, Ids
    <3> QED BY <2>3, <2>4, <3>1, Stutters
  <2> QED BY <2>5, <2>6
<1> QED BY <1>1, <1>2, <1>3, <1>4, <1>5 DEF Effect

LEMMA ServiceStep == LineInv /\ Effect => [Service!SNext]_Outcome
<1> SUFFICES ASSUME LineInv, Effect PROVE Service!SNext \/ UNCHANGED Outcome
  OBVIOUS
<1>1. CASE ~(Running /\ ~(esql'.current = "query"))
  BY <1>1, ServiceStepKeeps DEF Service!SNext
<1>2. CASE Running /\ ~(esql'.current = "query")
  <2>1. PICK id \in Ids : esql.current = "query" /\ esql.curId = id /\ outcome[id] = "none"
    BY <1>2 DEF Running, LineInv, Line
  <2>2. Rests
    BY <1>2 DEF Effect, Starts, Enters, Takes, Ends, Running
  <2>3. InQueue' = InQueue
    BY <2>2 DEF Rests, InQueue
  <2>4. Standing(id)' = "lost"
    <3>1. id \notin InQueue
      BY <2>1 DEF LineInv, Line, Ids
    <3> QED BY <1>2, <2>1, <2>2, <2>3, <3>1, RunsFirst DEF Rests, Standing, Waits
  <2>5. \A i \in Ids \ {id} : Standing(i)' = Standing(i)
    BY <1>2, <2>1, <2>2, <2>3 DEF Rests, Standing, Waits
  <2> QED BY <2>1, <2>4, <2>5, RunsFirst, Leaves DEF Service!SNext, Service!Lose
<1> QED BY <1>1, <1>2

\* The object implements QueryService, however dials cross, workers end and
\* statements fail (esql_query, esql_next, esql_call_complete, esql_event_error,
\* esql_sqlite_connect_cb).
THEOREM ServesInOrderCorrect == Spec => ServesInOrder
<1>1. ASSUME Init PROVE Service!SInit
  <2>1. \A id \in Ids : Standing(id) = "none"
    BY <1>1 DEF Init, Standing, Ids
  <2> QED BY <2>1, OutcomeIs DEF Service!SInit, Ids
<1>2. LineInv /\ [Next]_vars => [Service!SNext]_Outcome
  BY EffectStep, ServiceStep
<1> QED BY <1>1, <1>2, LineInvariant, PTL DEF Spec, ServesInOrder, Service!SSpec

----------------------------------------------------------------------------
(* While no dial crosses anything *)

\* Threads under way and endings not handled yet.
Work == workers.opening + workers.opened + workers.query + Len(ended)

Ending(how) == ended # <<>> /\ Head(ended) = how

\* There is one at a time, and none while an ending is handled.
OneWorker ==
  /\ Work <= 1
  /\ esql.thread => Work = 1
  /\ run.at \in {"complete", "error"} => Work = 0

\* The thread belongs to a dial.
Dials == workers.opening > 0 \/ workers.opened > 0 \/ (ended # <<>> /\ ~Running)

\* The query under way has the job, then the thread, then the ending, and with
\* them the statement, open in the object's handle; without one, the thread is a
\* dial's, and the object neither connected nor asked for anything.
Turns ==
  /\ Running =>
       /\ workers.opening = 0 /\ workers.opened = 0
       /\ esql.stmt \in {None, esql.curId}
       /\ esql.job => /\ ended = <<>> /\ workers.query = 0 /\ run.at \notin {"complete", "error"}
                      /\ esql.stmt # None /\ esql.connected
       /\ ended # <<>> \/ run.at \in {"complete", "error"} => esql.stmt = None
       /\ run.at \in {"complete", "error"} \/ esql.job \/ workers.query > 0 \/ ended # <<>>
  /\ ~Running => workers.query = 0 /\ ~esql.job /\ esql.stmt = None
  /\ Dials => ~esql.connected /\ esql.queue = <<>>
  /\ esql.stmt # None => esql.db # None /\ esql.stmt \in handles[esql.db].open
  /\ Here \notin {"result", "failed", "next"} /\ esql.current = "query" => Running
  /\ Here \in {"complete", "error", "refused"} /\ ~Running => ~esql.connected /\ esql.queue = <<>>
  /\ Ending("end") /\ esql.current = "query" => Running
  /\ run.at = "closing" => /\ workers.opening = 0 /\ workers.opened = 0
                           /\ Ending("end") => Running

\* e->res holds rows of the query under way, and what dropped ones left there.
Rows ==
  /\ esql.res.rows \subseteq Dropped \cup (IF Running THEN {esql.curId} ELSE {})
  /\ \A id \in Ids : rows[id] \subseteq {id} \cup Dropped

\* A handle that the program's dial opened is of the named file.
HasFile == esql.db # None /\ (dialler = "program" => handles[esql.db].file = "named")
Opens ==
  /\ esql.connected => HasFile
  /\ workers.opening > 0 /\ dialler = "program" => esql.conn = "named"
  /\ \/ workers.opened > 0
     \/ Ending("end") /\ ~Running
     \/ run.at = "complete" /\ esql.current = "init"
     => HasFile

Calm == ~crossed => OneWorker /\ Turns /\ Rows /\ Opens
CalmNow == OneWorker /\ Turns /\ Rows /\ Opens

LEMMA ThreadsCounted ==
  ASSUME TypeOK
  PROVE  /\ workers.opening \in Nat /\ workers.opened \in Nat /\ workers.query \in Nat
         /\ Len(ended) \in Nat /\ (ended = <<>> <=> Len(ended) = 0)
  BY DEF TypeOK

LEMMA OneOfFour ==
  ASSUME NEW a \in Nat, NEW b \in Nat, NEW c \in Nat, NEW d \in Nat, a + b + c + d <= 1, d # 0
  PROVE  a = 0 /\ b = 0 /\ c = 0 /\ d = 1
  OBVIOUS

LEMMA NoneOfFour ==
  ASSUME NEW a \in Nat, NEW b \in Nat, NEW c \in Nat, NEW d \in Nat, a + b + c + d = 0
  PROVE  a = 0 /\ b = 0 /\ c = 0 /\ d = 0
  OBVIOUS

LEMMA EndedAppend ==
  ASSUME TypeOK, ended = <<>>, NEW how \in {"end", "cancel"}
  PROVE  LET q == Append(ended, how) IN Len(q) = 1 /\ q # <<>> /\ Head(q) = how
  OBVIOUS

LEMMA TailOfOne == ASSUME NEW S, NEW q \in Seq(S), Len(q) = 1 PROVE Tail(q) = <<>>
<1>1. q # <<>>
  <2>1. SUFFICES ASSUME q = <<>> PROVE FALSE
    OBVIOUS
  <2>2. Len(<<>>) = 0
    OBVIOUS
  <2> QED BY <2>1, <2>2
<1>2. Tail(q) \in Seq(S) /\ Len(Tail(q)) = 0
  BY <1>1, HeadTailProperties
<1> QED BY <1>2, EmptySeq

LEMMA EndedTail == ASSUME TypeOK, Len(ended) = 1 PROVE Tail(ended) = <<>>
<1>1. ended \in Seq({"end", "cancel"})
  BY DEF TypeOK
<1> QED BY <1>1, TailOfOne

\* A step of the main thread that touches neither queries, threads nor handles.
Untouched ==
  /\ workers' = workers /\ ended' = ended /\ handles' = handles /\ rows' = rows /\ outcome' = outcome
  /\ esql'.current = esql.current /\ esql'.curId = esql.curId /\ esql'.queue = esql.queue
  /\ esql'.connected = esql.connected /\ esql'.job = esql.job /\ esql'.thread = esql.thread
  /\ esql'.stmt = esql.stmt /\ esql'.db = esql.db /\ esql'.conn = esql.conn
  /\ esql'.res.rows = esql.res.rows /\ dialler' = dialler

LEMMA CalmUntouched ==
  ASSUME LineInv, CalmNow, Untouched,
         run'.at \in {"complete", "error"} => run.at = run'.at,
         run.at \in {"complete", "error"} /\ Running => run'.at = run.at,
         Here' \notin {"result", "failed", "next"} /\ esql.current = "query" => Running,
         Here' \in {"complete", "error", "refused"} =>
           Here \in {"complete", "error", "refused"},
         run'.at = "closing" => /\ workers.opening = 0 /\ workers.opened = 0
                                /\ Ending("end") => Running
  PROVE  CalmNow'
<1>1. Running' = Running /\ Ending("end")' = Ending("end") /\ Dropped' = Dropped /\ Dials' = Dials /\ Work' = Work
  BY DEF Untouched, Running, Ending, Dropped, Dials, Work
<1>2. OneWorker'
  BY <1>1 DEF CalmNow, OneWorker, Untouched
<1>3. Turns'
  BY <1>1 DEF CalmNow, Turns, Untouched
<1>4. Rows'
  BY <1>1 DEF CalmNow, Rows, Untouched
<1>5. HasFile' = HasFile
  BY DEF HasFile, Untouched
<1>6. Opens'
  BY <1>1, <1>5 DEF CalmNow, Opens, Untouched
<1> QED BY <1>2, <1>3, <1>4, <1>6 DEF CalmNow

\* esql_disconnect, while no dial is under way.
LEMMA CloseCalm ==
  ASSUME LineInv, CalmNow, NEW p \in Points \ {"closing"}, Close(p), ~crossed'
  PROVE  /\ run'.at = "closing" => /\ workers.opening = 0 /\ workers.opened = 0
                                   /\ Ending("end") => Running
         /\ run'.at \in {p, "closing"}
<1>1. ~Dialling /\ run'.at \in {p, "closing"}
  BY DEF Close
<1> QED BY <1>1, ThreadsCounted DEF Dialling, LineInv, CalmNow, Turns, Ending

LEMMA CalmProgramQuiet ==
  ASSUME LineInv, CalmNow, ~crossed', Disconnect \/ TimeoutSet \/ (\E id \in Ids : QueryCallbackSet(id)) \/ QueryRefused
  PROVE  CalmNow'
<1>1. Untouched
  BY ObjectFields
     DEF Disconnect, TimeoutSet, QueryCallbackSet, QueryRefused, NotPrepared, Busy, Untouched, history,
         LineInv, EsqlRec, CalmNow, Turns, Running
<1>2. run.at \in ProgramPoints /\ Here = run.at
  BY HereAtPoint DEF Disconnect, TimeoutSet, QueryCallbackSet, QueryRefused, Queryable, ProgramTurn, ProgramPoints
<1>3. CASE Disconnect
  <2>1. /\ Here' = Here /\ run'.at \in {run.at, "closing"}
        /\ run'.at = "closing" => /\ workers.opening = 0 /\ workers.opened = 0
                                  /\ Ending("end") => Running
    BY <1>2, <1>3, HereAfterClose, CloseCalm, PointsAre DEF Disconnect, ProgramPoints, LineInv
  <2> QED BY <1>1, <1>2, <2>1, CalmUntouched DEF CalmNow, Turns, ProgramPoints
<1>4. CASE run' = run
  <2>1. Here' = Here
    BY <1>4, HereStays
  <2> QED BY <1>1, <1>2, <1>4, <2>1, CalmUntouched DEF CalmNow, Turns, ProgramPoints
<1> QED BY <1>3, <1>4 DEF TimeoutSet, QueryCallbackSet, QueryRefused

LEMMA CalmTimeoutFires == ASSUME LineInv, CalmNow, ~crossed', TimeoutFires PROVE CalmNow'
<1>1. Untouched
  BY ObjectFields DEF TimeoutFires, Untouched, history, LineInv, EsqlRec
<1>2. run.at = "loop" /\ Here = "loop" /\ Close("retry")
  BY HereAtPoint DEF TimeoutFires, At
<1>3. /\ Here' = "retry" /\ run'.at \in {"retry", "closing"}
      /\ run'.at = "closing" => /\ workers.opening = 0 /\ workers.opened = 0
                                /\ Ending("end") => Running
  BY <1>2, HereAfterClose, CloseCalm, PointsAre DEF LineInv
<1> QED BY <1>1, <1>2, <1>3, CalmUntouched DEF CalmNow, Turns

LEMMA CalmDown == ASSUME LineInv, CalmNow, ~crossed', Down PROVE CalmNow'
<1>1. Untouched
  BY DEF Down, Untouched
<1>2. run.at = "down" /\ Here = "down" /\ Close("retry")
  BY HereAtPoint DEF Down, At
<1>3. /\ Here' = "retry" /\ run'.at \in {"retry", "closing"}
      /\ run'.at = "closing" => /\ workers.opening = 0 /\ workers.opened = 0
                                /\ Ending("end") => Running
  BY <1>2, HereAfterClose, CloseCalm, PointsAre DEF LineInv
<1> QED BY <1>1, <1>2, <1>3, CalmUntouched DEF CalmNow, Turns

LEMMA CalmRetry == ASSUME LineInv, CalmNow, Retry PROVE CalmNow'
<1>1. Untouched
  BY ObjectFields DEF Retry, Untouched, history, LineInv, EsqlRec
<1>2. run.at = "retry" /\ Here = "retry" /\ run'.at = "loop" /\ Here' = "loop"
  BY DEF Retry, At, Here
<1> QED BY <1>1, <1>2, CalmUntouched DEF CalmNow, Turns

LEMMA CalmErrorOther == ASSUME LineInv, CalmNow, ErrorOther PROVE CalmNow'
<1>1. Untouched /\ esql.current # "query"
  BY DEF ErrorOther, Untouched, history
<1>2. run.at = "error" /\ Here = "error" /\ run'.at \in {"refused", "down"} /\ Here' = run'.at
  BY HereAtPoint, HereAfterGoto, PointsAre DEF ErrorOther, At, LineInv
<1> QED BY <1>1, <1>2, CalmUntouched DEF Running

LEMMA CalmCompleteNothing == ASSUME LineInv, CalmNow, CompleteNothing PROVE CalmNow'
<1>1. Untouched /\ esql.current # "query"
  BY DEF CompleteNothing, Untouched, history
<1>2. run.at = "complete" /\ Here = "complete" /\ run'.at = "next" /\ Here' = "next"
  BY HereAtPoint, HereAfterGoto, PointsAre DEF CompleteNothing, At, LineInv
<1> QED BY <1>1, <1>2, CalmUntouched DEF Running

LEMMA CalmCbReturns == ASSUME LineInv, CalmNow, CbReturns PROVE CalmNow'
<1>1. Untouched
  BY DEF CbReturns, Untouched, history
<1>2. \/ run.at \in {"ready", "result", "failed"} /\ run'.at = "next"
      \/ run.at = "refused" /\ run'.at = "down"
  BY HereAfterGoto, PointsAre DEF CbReturns, At, LineInv
<1>3. Here = run.at /\ Here' = run'.at
  BY <1>2 DEF Here
<1> QED BY <1>1, <1>2, <1>3, CalmUntouched DEF CalmNow, Turns

LEMMA CalmWorkerDone == ASSUME LineInv, CalmNow, WorkerDone, TypeOK' PROVE CalmNow'
<1>1. /\ esql'.current = esql.current /\ esql'.curId = esql.curId /\ esql'.queue = esql.queue
      /\ esql'.connected = esql.connected /\ esql'.job = esql.job /\ esql'.thread = esql.thread
      /\ esql'.stmt = None /\ esql'.db = esql.db /\ esql'.conn = esql.conn
      /\ esql'.res.rows = esql.res.rows /\ dialler' = dialler
  BY ObjectFields DEF history, WorkerDone, EsqlRec, LineInv
<1>2. /\ Running /\ ~esql.job /\ ended = <<>> /\ run.at \notin {"complete", "error"}
      /\ workers.query = 1 /\ workers.opening = 0 /\ workers.opened = 0
  BY ThreadsCounted DEF WorkerDone, LineInv, CalmNow, OneWorker, Work, Turns
<1>3. /\ workers'.query = 0 /\ workers'.opening = 0 /\ workers'.opened = 0
      /\ ended' = Append(ended, "end")
  BY <1>2 DEF WorkerDone, WorkerEnds, LineInv, TypeOK
<1>4. Len(ended') = 1 /\ ended' # <<>> /\ Head(ended') = "end"
  BY <1>2, <1>3, EndedAppend DEF LineInv
<1>5. Here' = Here /\ run' = run
  BY HereStays DEF WorkerDone
<1>6. Running'
  BY <1>1, <1>2 DEF WorkerDone, history, Running
<1>7. OneWorker'
  BY <1>1, <1>2, <1>3, <1>4, <1>5 DEF CalmNow, OneWorker, Work
<1>8. Turns'
  BY <1>1, <1>2, <1>3, <1>4, <1>5, <1>6 DEF CalmNow, Turns, Dials, Ending
<1>9. Rows'
  BY <1>1, <1>2, <1>6 DEF CalmNow, Rows, WorkerDone, history, Dropped
<1>10. Opens'
  <2>1. \A h \in Handles : handles'[h].file = handles[h].file
    BY DEF WorkerDone, Finalised, LineInv, TypeOK
  <2> QED BY <1>1, <1>2, <1>3, <1>4, <1>5, <1>6, <2>1, ObjectFields DEF LineInv, CalmNow, Opens, HasFile
<1> QED BY <1>7, <1>8, <1>9, <1>10 DEF CalmNow

LEMMA CalmWorkerFails == ASSUME LineInv, CalmNow, WorkerFails, TypeOK' PROVE CalmNow'
<1>1. /\ esql'.current = esql.current /\ esql'.curId = esql.curId /\ esql'.queue = esql.queue
      /\ esql'.connected = esql.connected /\ esql'.job = esql.job /\ esql'.thread = esql.thread
      /\ esql'.stmt = None /\ esql'.db = esql.db /\ esql'.conn = esql.conn
      /\ esql'.res = esql.res /\ dialler' = dialler
  BY ObjectFields DEF history, WorkerFails, EsqlRec, LineInv
<1>2. /\ Running /\ ~esql.job /\ ended = <<>> /\ run.at \notin {"complete", "error"}
      /\ workers.query = 1 /\ workers.opening = 0 /\ workers.opened = 0
  BY ThreadsCounted DEF WorkerFails, LineInv, CalmNow, OneWorker, Work, Turns
<1>3. /\ workers'.query = 0 /\ workers'.opening = 0 /\ workers'.opened = 0
      /\ ended' = Append(ended, "cancel")
  BY <1>2 DEF WorkerFails, WorkerEnds, LineInv, TypeOK
<1>4. Len(ended') = 1 /\ ended' # <<>> /\ Head(ended') = "cancel"
  BY <1>2, <1>3, EndedAppend DEF LineInv
<1>5. Here' = Here /\ run' = run
  BY HereStays DEF WorkerFails
<1>6. Running'
  BY <1>1, <1>2 DEF WorkerFails, history, Running
<1>7. OneWorker'
  BY <1>1, <1>2, <1>3, <1>4, <1>5 DEF CalmNow, OneWorker, Work
<1>8. Turns'
  BY <1>1, <1>2, <1>3, <1>4, <1>5, <1>6 DEF CalmNow, Turns, Dials, Ending
<1>9. Rows'
  BY <1>1, <1>2, <1>6 DEF CalmNow, Rows, WorkerFails, history, Dropped
<1>10. Opens'
  <2>1. \A h \in Handles : handles'[h].file = handles[h].file
    BY DEF WorkerFails, Finalised, LineInv, TypeOK
  <2> QED BY <1>1, <1>2, <1>3, <1>4, <1>5, <1>6, <2>1, ObjectFields DEF LineInv, CalmNow, Opens, HasFile
<1> QED BY <1>7, <1>8, <1>9, <1>10 DEF CalmNow

LEMMA CalmWorkerFindsNone == ASSUME LineInv, CalmNow, WorkerFindsNone, TypeOK' PROVE CalmNow'
<1>1. /\ Running /\ ~esql.job /\ ended = <<>> /\ run.at \notin {"complete", "error"}
      /\ workers.query = 1 /\ workers.opening = 0 /\ workers.opened = 0
  BY ThreadsCounted DEF WorkerFindsNone, LineInv, CalmNow, OneWorker, Work, Turns
<1>2. /\ workers'.query = 0 /\ workers'.opening = 0 /\ workers'.opened = 0
      /\ ended' = Append(ended, "end") /\ esql' = esql /\ handles' = handles
  BY <1>1 DEF WorkerFindsNone, WorkerEnds, LineInv, TypeOK
<1>3. Len(ended') = 1 /\ ended' # <<>> /\ Head(ended') = "end"
  BY <1>1, <1>2, EndedAppend DEF LineInv
<1>4. Here' = Here /\ run' = run
  BY HereStays DEF WorkerFindsNone
<1>5. Running' = Running
  BY <1>2 DEF WorkerFindsNone, history, Running
<1>6. OneWorker'
  BY <1>1, <1>2, <1>3, <1>4 DEF CalmNow, OneWorker, Work
<1>7. Turns'
  BY <1>1, <1>2, <1>3, <1>4, <1>5 DEF CalmNow, Turns, Dials, Ending, WorkerFindsNone
<1>8. Rows'
  BY <1>2, <1>5 DEF CalmNow, Rows, WorkerFindsNone, history, Dropped
<1>9. Opens'
  BY <1>1, <1>2, <1>3, <1>4, <1>5 DEF CalmNow, Opens, HasFile, WorkerFindsNone, history
<1> QED BY <1>6, <1>7, <1>8, <1>9 DEF CalmNow

LEMMA CalmWorkerRow == ASSUME LineInv, CalmNow, WorkerRow PROVE CalmNow'
<1>1. /\ esql'.current = esql.current /\ esql'.curId = esql.curId /\ esql'.queue = esql.queue
      /\ esql'.connected = esql.connected /\ esql'.job = esql.job /\ esql'.thread = esql.thread
      /\ esql'.stmt = esql.stmt /\ esql'.db = esql.db /\ esql'.conn = esql.conn
      /\ esql'.res.rows = esql.res.rows \cup {esql.stmt}
      /\ dialler' = dialler
  BY ObjectFields DEF history, WorkerRow, EsqlRec, LineInv
<1>2. Here' = Here /\ run' = run
  BY HereStays DEF WorkerRow
<1>3. workers' = workers /\ ended' = ended /\ handles' = handles /\ outcome' = outcome /\ rows' = rows
  BY DEF WorkerRow, history
<1>4. Running' = Running
  BY <1>1, <1>3 DEF Running
<1>5. Running /\ esql.stmt = esql.curId
  BY ThreadsCounted DEF WorkerRow, LineInv, CalmNow, Turns
<1>6. OneWorker'
  BY <1>1, <1>2, <1>3 DEF CalmNow, OneWorker, Work
<1>7. Turns'
  BY <1>1, <1>2, <1>3, <1>4 DEF CalmNow, Turns, Dials, Ending
<1>8. Rows'
  BY <1>1, <1>3, <1>4, <1>5 DEF CalmNow, Rows, Dropped
<1>9. Opens'
  BY <1>1, <1>2, <1>3, <1>4 DEF CalmNow, Opens, HasFile, Ending
<1> QED BY <1>6, <1>7, <1>8, <1>9 DEF CalmNow

LEMMA CalmWorkerOpens == ASSUME LineInv, CalmNow, WorkerOpens, TypeOK' PROVE CalmNow'
<1>1. /\ esql'.current = esql.current /\ esql'.curId = esql.curId /\ esql'.queue = esql.queue
      /\ esql'.connected = esql.connected /\ esql'.job = esql.job /\ esql'.thread = esql.thread
      /\ esql'.stmt = esql.stmt /\ esql'.db = FreeHandle /\ esql'.conn = esql.conn
      /\ esql'.res.rows = esql.res.rows
      /\ dialler' = dialler
  BY ObjectFields DEF history, WorkerOpens, EsqlRec, LineInv
<1>2. /\ ended = <<>> /\ workers.opening = 1 /\ workers.opened = 0 /\ workers.query = 0 /\ ~Running
      /\ run.at \notin {"complete", "error", "closing"} /\ ~esql.connected
  BY ThreadsCounted DEF WorkerOpens, LineInv, CalmNow, OneWorker, Work, Turns, Dials
<1>3. workers'.opening = 0 /\ workers'.opened = 1 /\ workers'.query = 0
  BY <1>2, ThreadsCounted DEF WorkerOpens, LineInv, TypeOK
<1>4. Here' = Here /\ run' = run /\ ended' = ended /\ outcome' = outcome /\ rows' = rows
  BY HereStays DEF WorkerOpens, history
<1>5. Running' = Running
  BY <1>1, <1>4 DEF Running
<1>6. FreeHandle \in Handles /\ FreeHandle # None
       /\ (dialler = "program" => handles'[FreeHandle].file = "named")
  <2>1. FreeHandle \in Handles
    BY HandleFree DEF WorkerOpens
  <2>2. handles'[FreeHandle].file = IF esql.conn = "named" THEN "named" ELSE "private"
    BY <2>1 DEF WorkerOpens, Opened, LineInv, TypeOK
  <2> QED BY <1>2, <2>1, <2>2 DEF CalmNow, Opens, Handles, None
<1>7. OneWorker'
  BY <1>1, <1>2, <1>3, <1>4 DEF CalmNow, OneWorker, Work
<1>8. Turns'
  BY <1>1, <1>2, <1>3, <1>4, <1>5 DEF CalmNow, Turns, Dials, Ending
<1>9. Rows'
  BY <1>1, <1>4, <1>5 DEF CalmNow, Rows, Dropped
<1>10. Opens'
  BY <1>1, <1>2, <1>3, <1>4, <1>6 DEF CalmNow, Opens, HasFile
<1> QED BY <1>7, <1>8, <1>9, <1>10 DEF CalmNow

LEMMA CalmWorkerCannotOpen == ASSUME LineInv, CalmNow, WorkerCannotOpen, TypeOK' PROVE CalmNow'
<1>1. /\ esql'.current = esql.current /\ esql'.curId = esql.curId /\ esql'.queue = esql.queue
      /\ esql'.connected = esql.connected /\ esql'.job = esql.job /\ esql'.thread = FALSE
      /\ esql'.stmt = esql.stmt /\ esql'.db = esql.db /\ esql'.conn = esql.conn
      /\ esql'.res.rows = esql.res.rows
      /\ dialler' = dialler
  BY ObjectFields DEF history, WorkerCannotOpen, EsqlRec, LineInv
<1>2. /\ ended = <<>> /\ workers.opening = 0 /\ workers.opened = 1 /\ workers.query = 0 /\ ~Running
      /\ run.at \notin {"complete", "error", "closing"} /\ ~esql.connected /\ Dials
  <2>1. workers.opened > 0 /\ Dials
    BY DEF WorkerCannotOpen, Dials
  <2> QED BY <2>1, ThreadsCounted DEF LineInv, CalmNow, OneWorker, Work, Turns
<1>3. workers'.opening = 0 /\ workers'.opened = 0 /\ workers'.query = 0 /\ ended' = Append(ended, "cancel")
  BY <1>2, ThreadsCounted DEF WorkerCannotOpen, LineInv, TypeOK
<1>4. Len(ended') = 1 /\ ended' # <<>> /\ Head(ended') = "cancel"
  BY <1>2, <1>3, EndedAppend DEF LineInv
<1>5. Here' = Here /\ run' = run /\ outcome' = outcome /\ rows' = rows /\ handles' = handles
  BY HereStays DEF WorkerCannotOpen, history
<1>6. Running' = Running
  BY <1>1, <1>5 DEF Running
<1>7. OneWorker'
  BY <1>1, <1>2, <1>3, <1>4, <1>5 DEF CalmNow, OneWorker, Work
<1>8. Turns'
  BY <1>1, <1>2, <1>3, <1>4, <1>5, <1>6 DEF CalmNow, Turns, Ending
<1>9. Rows'
  BY <1>1, <1>5, <1>6 DEF CalmNow, Rows, Dropped
<1>10. Opens'
  BY <1>1, <1>2, <1>3, <1>4, <1>5 DEF CalmNow, Opens, Ending
<1> QED BY <1>7, <1>8, <1>9, <1>10 DEF CalmNow

LEMMA CalmWorkerSaysInit == ASSUME LineInv, CalmNow, WorkerSaysInit, TypeOK' PROVE CalmNow'
<1>1. /\ esql'.current = "init" /\ esql'.queue = esql.queue
      /\ esql'.connected = esql.connected /\ esql'.job = esql.job /\ esql'.thread = esql.thread
      /\ esql'.stmt = esql.stmt /\ esql'.db = esql.db /\ esql'.conn = esql.conn
      /\ esql'.res.rows = esql.res.rows
      /\ dialler' = dialler
  BY ObjectFields DEF history, WorkerSaysInit, EsqlRec, LineInv
<1>2. /\ ended = <<>> /\ workers.opening = 0 /\ workers.opened = 1 /\ workers.query = 0 /\ ~Running
      /\ run.at \notin {"complete", "error", "closing"} /\ ~esql.connected /\ Dials
  BY ThreadsCounted DEF WorkerSaysInit, LineInv, CalmNow, OneWorker, Work, Turns, Dials
<1>3. workers'.opening = 0 /\ workers'.opened = 0 /\ workers'.query = 0 /\ ended' = Append(ended, "end")
  BY <1>2, ThreadsCounted DEF WorkerSaysInit, LineInv, TypeOK
<1>4. Len(ended') = 1 /\ ended' # <<>> /\ Head(ended') = "end"
  BY <1>2, <1>3, EndedAppend DEF LineInv
<1>5. Here' = Here /\ run' = run /\ outcome' = outcome /\ rows' = rows /\ handles' = handles
  BY HereStays DEF WorkerSaysInit, history
<1>6. ~Running'
  BY <1>1 DEF Running
<1>7. OneWorker'
  BY <1>1, <1>2, <1>3, <1>4, <1>5 DEF CalmNow, OneWorker, Work
<1>8. Turns'
  BY <1>1, <1>2, <1>3, <1>4, <1>5, <1>6 DEF CalmNow, Turns, Ending
<1>9. Rows'
  BY <1>1, <1>2, <1>5, <1>6 DEF CalmNow, Rows, Dropped
<1>10. Opens'
  BY <1>1, <1>2, <1>3, <1>4, <1>5 DEF CalmNow, Opens, HasFile
<1> QED BY <1>7, <1>8, <1>9, <1>10 DEF CalmNow

\* A dial, which finds the object at rest or crosses something.
LEMMA CalmDial ==
  ASSUME LineInv, CalmNow, TypeOK', NEW who, DialStarts(who), ~crossed', ~esql.connected,
         run.at \in ProgramPoints, run' = run,
         UNCHANGED <<handles, ended, outcome, rows>>,
         esql'.current = esql.current, esql'.curId = esql.curId, esql'.queue = esql.queue,
         esql'.connected = esql.connected, esql'.job = esql.job,
         esql'.stmt = esql.stmt, esql'.db = esql.db, esql'.res = esql.res,
         who = "program" => esql'.conn = "named"
  PROVE  CalmNow'
<1>1. ended = <<>> /\ workers.opening = 0 /\ workers.opened = 0 /\ workers.query = 0 /\ esql.queue = <<>>
  <2>1. ~Working /\ esql.queue = <<>>
    BY DEF DialStarts
  <2> QED BY <2>1, ThreadsCounted DEF Working, Dialling, LineInv
<1>2. workers'.opening = 1 /\ workers'.opened = 0 /\ workers'.query = 0
  BY <1>1 DEF DialStarts, LineInv, TypeOK
<1>3. Here' = Here /\ Here = run.at /\ run.at \notin {"complete", "error", "closing"}
  BY HereStays, HereAtPoint DEF ProgramPoints
<1>4. Running' = Running /\ ~Running
  BY <1>1, <1>3 DEF Running, CalmNow, Turns
<1>5. Len(ended) = 0
  BY <1>1
<1>6. OneWorker'
  BY <1>1, <1>2, <1>3, <1>5 DEF OneWorker, Work
<1>7. Turns'
  BY <1>1, <1>2, <1>3, <1>4 DEF CalmNow, Turns, Ending
<1>8. Rows'
  BY <1>4 DEF CalmNow, Rows, Dropped
<1>9. Opens'
  <2>1. dialler' = who
    BY DEF DialStarts
  <2> QED BY <1>1, <1>2, <1>3, <1>4, <2>1 DEF CalmNow, Opens, Ending
<1> QED BY <1>6, <1>7, <1>8, <1>9 DEF CalmNow

LEMMA CalmConnect == ASSUME LineInv, CalmNow, TypeOK', Connect, ~crossed' PROVE CalmNow'
<1>1. /\ esql'.current = esql.current /\ esql'.curId = esql.curId /\ esql'.queue = esql.queue
      /\ esql'.connected = esql.connected /\ esql'.job = esql.job
      /\ esql'.stmt = esql.stmt /\ esql'.db = esql.db /\ esql'.res = esql.res
      /\ esql'.conn = "named"
  BY ObjectFields DEF Connect, WithWorker, Named, EsqlRec, LineInv
<1> QED BY <1>1, CalmDial DEF Connect, ProgramTurn

LEMMA CalmReconnectFires == ASSUME LineInv, CalmNow, TypeOK', ReconnectFires, ~crossed' PROVE CalmNow'
<1>1. /\ esql'.current = esql.current /\ esql'.curId = esql.curId /\ esql'.queue = esql.queue
      /\ esql'.connected = esql.connected /\ esql'.job = esql.job
      /\ esql'.stmt = esql.stmt /\ esql'.db = esql.db /\ esql'.res = esql.res
  BY ObjectFields DEF ReconnectFires, WithWorker, EsqlRec, LineInv
<1>2. ~esql.connected
  BY DEF ReconnectFires, DialStarts
<1>3. run.at \in ProgramPoints /\ run' = run
  BY DEF ReconnectFires, At, ProgramPoints
<1> QED BY <1>1, <1>2, <1>3, CalmDial DEF ReconnectFires

LEMMA CalmQueryStart == ASSUME LineInv, CalmNow, LineInv', QueryStart PROVE CalmNow'
<1>1. PICK id \in Ids : id = lastId + 1
  BY DEF QueryStart, Accept, LineInv, TypeOK, Ids
<1>2. /\ esql'.current = "query" /\ esql'.curId = id /\ esql'.queue = esql.queue
      /\ esql'.connected = esql.connected /\ esql'.job = TRUE /\ esql'.thread = esql.thread
      /\ esql'.stmt = id /\ esql'.db = esql.db /\ esql'.conn = esql.conn /\ esql'.res = esql.res
      /\ dialler' = dialler
  BY <1>1, ObjectFields DEF history, QueryStart, Accept, WithJob, Prepared, EsqlRec, LineInv
<1>3. /\ esql.connected /\ esql.current = "none" /\ ~Running /\ esql.db \in Handles
      /\ run.at \in ProgramPoints /\ Here = run.at /\ Here' = Here /\ run' = run
  BY HereStays, HereAtPoint, ObjectFields
     DEF QueryStart, Queryable, ProgramTurn, Busy, Accept, Running, ProgramPoints, LineInv
<1>4. /\ ended = <<>> /\ workers.opening = 0 /\ workers.opened = 0 /\ workers.query = 0
      /\ ~esql.thread
  BY <1>3, ThreadsCounted DEF LineInv, CalmNow, OneWorker, Work, Turns, Dials
<1>5. /\ workers' = workers /\ ended' = ended /\ outcome' = outcome /\ rows' = rows
      /\ handles' = [handles EXCEPT ![esql.db].open = @ \cup {id}]
  BY <1>1 DEF QueryStart, Accept, history, HoldsStatement
<1>6. outcome[id] = "none"
  BY <1>1 DEF LineInv, Line, TypeOK, Ids
<1>7. Running' /\ id # None
  BY <1>1, <1>2, <1>5, <1>6 DEF Running, Ids, None
<1>8. /\ id \in handles'[esql.db].open
      /\ \A h \in Handles : handles'[h].file = handles[h].file
  BY <1>3, <1>5 DEF LineInv, TypeOK
<1>9. OneWorker'
  BY <1>2, <1>3, <1>5 DEF CalmNow, OneWorker, Work
<1>10. Turns'
  BY <1>2, <1>3, <1>4, <1>5, <1>7, <1>8 DEF CalmNow, Turns, Dials, Ending, ProgramPoints, Handles, None
<1>11. Rows'
  BY <1>2, <1>3, <1>5 DEF CalmNow, Rows, Dropped
<1>12. Opens'
  BY <1>2, <1>3, <1>4, <1>5, <1>8 DEF CalmNow, Opens, HasFile, Ending, ProgramPoints
<1> QED BY <1>9, <1>10, <1>11, <1>12 DEF CalmNow

LEMMA CalmQueryQueue == ASSUME LineInv, CalmNow, QueryQueue PROVE CalmNow'
<1>1. /\ esql'.current = esql.current /\ esql'.curId = esql.curId
      /\ esql'.connected = esql.connected /\ esql'.job = esql.job /\ esql'.thread = esql.thread
      /\ esql'.stmt = esql.stmt /\ esql'.db = esql.db /\ esql'.conn = esql.conn /\ esql'.res = esql.res
      /\ dialler' = dialler
  BY ObjectFields DEF history, QueryQueue, Accept, Queued, EsqlRec, LineInv
<1>2. /\ esql.connected /\ Here' = Here /\ run' = run /\ workers' = workers /\ ended' = ended
      /\ outcome' = outcome /\ rows' = rows /\ handles' = handles
  BY HereStays DEF QueryQueue, Queryable, Accept, history
<1>3. Running' = Running
  BY <1>1, <1>2 DEF Running
<1>4. OneWorker'
  BY <1>1, <1>2 DEF CalmNow, OneWorker, Work
<1>5. Turns'
  BY <1>1, <1>2, <1>3 DEF CalmNow, Turns, Dials, Ending
<1>6. Rows'
  BY <1>1, <1>2, <1>3 DEF CalmNow, Rows, Dropped
<1>7. Opens'
  BY <1>1, <1>2, <1>3 DEF CalmNow, Opens, HasFile, Ending
<1> QED BY <1>4, <1>5, <1>6, <1>7 DEF CalmNow

LEMMA CalmWorkerEnded == ASSUME LineInv, CalmNow, TypeOK', WorkerEnded PROVE CalmNow'
<1>1. /\ esql'.current = esql.current /\ esql'.curId = esql.curId /\ esql'.queue = esql.queue
      /\ esql'.connected = esql.connected /\ esql'.job = esql.job /\ esql'.thread = FALSE
      /\ esql'.db = esql.db /\ esql'.conn = esql.conn /\ esql'.res = esql.res
      /\ dialler' = dialler
      /\ esql'.stmt \in {None, esql.stmt}
  BY ObjectFields, ZenonT(60) DEF history, WorkerEnded, EsqlRec, LineInv
<1>2. /\ run.at = "loop" /\ Here = "loop" /\ ended # <<>>
      /\ Len(ended) = 1 /\ workers.opening = 0 /\ workers.opened = 0 /\ workers.query = 0
      /\ esql.stmt = None
  <2>1. run.at = "loop" /\ Here = "loop" /\ ended # <<>>
    BY HereAtPoint DEF WorkerEnded, At
  <2>2. Len(ended) = 1 /\ workers.opening = 0 /\ workers.opened = 0 /\ workers.query = 0
    <3>1. /\ workers.opening \in Nat /\ workers.opened \in Nat /\ workers.query \in Nat
          /\ Len(ended) \in Nat /\ Len(ended) # 0
      BY <2>1, ThreadsCounted DEF LineInv
    <3>2. workers.opening + workers.opened + workers.query + Len(ended) <= 1
      BY DEF CalmNow, OneWorker, Work
    <3> QED BY <3>1, <3>2, OneOfFour, ZenonT(60)
  <2>3. esql.stmt = None
    BY <2>1 DEF CalmNow, Turns
  <2> QED BY <2>1, <2>2, <2>3
<1>3. /\ ended' = <<>> /\ workers' = workers /\ outcome' = outcome /\ rows' = rows /\ handles' = handles
  BY <1>2, EndedTail DEF WorkerEnded, history, StatementGone, LineInv
<1>4. /\ run'.at \in {"complete", "error"} /\ Here' = run'.at
      /\ run'.at = "complete" => Ending("end")
  BY HereAfterGoto, PointsAre DEF WorkerEnded, LineInv, Ending
<1>5. Running' = Running
  BY <1>1, <1>3 DEF Running
<1>6. Len(ended') = 0
  BY <1>3
<1>7. OneWorker'
  BY <1>1, <1>2, <1>3, <1>6 DEF OneWorker, Work
<1>8. Turns'
  BY <1>1, <1>2, <1>3, <1>4, <1>5 DEF CalmNow, Turns, Dials, Ending
<1>9. Rows'
  BY <1>1, <1>3, <1>5 DEF CalmNow, Rows, Dropped
<1>10. Opens'
  BY <1>1, <1>2, <1>3, <1>4, <1>5 DEF CalmNow, Opens, HasFile, Ending, Running
<1> QED BY <1>7, <1>8, <1>9, <1>10 DEF CalmNow

LEMMA CalmRunJob == ASSUME LineInv, CalmNow, TypeOK', RunJob PROVE CalmNow'
<1>1. /\ run.at = "loop" /\ Here = "loop" /\ esql.job /\ Running
      /\ workers.opening = 0 /\ workers.opened = 0 /\ workers.query = 0 /\ ended = <<>> /\ ~esql.thread
  BY ThreadsCounted, HereAtPoint DEF RunJob, At, LineInv, CalmNow, OneWorker, Work, Turns
<1>2. run' = run /\ Here' = Here /\ ended' = ended /\ handles' = handles /\ outcome' = outcome /\ rows' = rows
  BY <1>1, HereStays DEF RunJob, IoRefuses, history
<1>3. /\ esql'.current = esql.current /\ esql'.curId = esql.curId /\ esql'.queue = esql.queue
      /\ esql'.connected = esql.connected /\ esql'.job = FALSE
      /\ esql'.db = esql.db /\ esql'.conn = esql.conn /\ esql'.res = esql.res
      /\ dialler' = dialler /\ esql'.stmt = esql.stmt
  BY ObjectFields DEF history, RunJob, WithWorker, EsqlRec, LineInv
<1>4. workers'.opening = 0 /\ workers'.opened = 0 /\ workers'.query = 1
  BY <1>1 DEF RunJob, IoRefuses, IoStarts, LineInv, TypeOK
<1>5. Running' /\ Len(ended') = 0
  BY <1>1, <1>2, <1>3 DEF Running
<1>6. OneWorker'
  BY <1>1, <1>2, <1>4, <1>5 DEF OneWorker, Work
<1>7. Turns'
  BY <1>1, <1>2, <1>3, <1>4, <1>5 DEF CalmNow, Turns, Dials, Ending
<1>8. Rows'
  BY <1>1, <1>2, <1>3, <1>5 DEF CalmNow, Rows, Dropped
<1>9. Opens'
  BY <1>1, <1>2, <1>3, <1>4, <1>5 DEF CalmNow, Opens, HasFile, Ending
<1> QED BY <1>6, <1>7, <1>8, <1>9 DEF CalmNow

LEMMA CalmCloseEnds == ASSUME LineInv, CalmNow, CloseEnds PROVE CalmNow'
<1>1. /\ esql'.current = esql.current /\ esql'.curId = esql.curId /\ esql'.queue = esql.queue
      /\ ~esql'.connected /\ esql'.job = esql.job /\ esql'.thread = esql.thread
      /\ esql'.stmt = esql.stmt /\ esql'.res = esql.res
      /\ dialler' = dialler
  BY ObjectFields DEF history, CloseEnds, Disconnected, EsqlRec, LineInv
<1>2. run.at = "closing" /\ workers.opening = 0 /\ workers.opened = 0 /\ (Ending("end") => Running)
  BY DEF CloseEnds, At, CalmNow, Turns
<1>3. esql.stmt = None /\ ~esql.job
  BY <1>2 DEF CloseEnds, CalmNow, Turns
<1>4. /\ workers' = workers /\ ended' = ended /\ outcome' = outcome /\ rows' = rows
  BY DEF CloseEnds, history
<1>5. run'.at = run.back /\ run.back \notin {"complete", "error", "closing"} /\ Here' = Here /\ Here = run.back
  BY <1>2 DEF CloseEnds, Here, LineInv, Control, ProgramPoints
<1>6. Running' = Running /\ Dropped' = Dropped
  BY <1>1, <1>4 DEF Running, Dropped
<1>7. OneWorker'
  BY <1>1, <1>4, <1>5 DEF CalmNow, OneWorker, Work
<1>8. Turns'
  BY <1>1, <1>2, <1>3, <1>4, <1>5, <1>6 DEF CalmNow, Turns, Dials, Ending
<1>9. Rows'
  BY <1>1, <1>4, <1>6 DEF CalmNow, Rows
<1>10. Opens'
  BY <1>1, <1>2, <1>4, <1>5, <1>6, ThreadsCounted DEF CalmNow, Opens, Ending, LineInv
<1> QED BY <1>7, <1>8, <1>9, <1>10 DEF CalmNow

LEMMA CalmCompleteInit == ASSUME LineInv, CalmNow, CompleteInit PROVE CalmNow'
<1>1. /\ esql'.current = "init" /\ esql.current = "init" /\ esql'.curId = esql.curId /\ esql'.queue = esql.queue
      /\ esql'.job = esql.job /\ esql'.thread = esql.thread
      /\ esql'.stmt = esql.stmt /\ esql'.db = esql.db /\ esql'.conn = esql.conn /\ esql'.res = esql.res
      /\ dialler' = dialler
  BY ObjectFields DEF history, CompleteInit, EsqlRec, LineInv
<1>2. /\ run.at = "complete" /\ run'.at \in {"ready", "next"} /\ Here = "complete" /\ Here' = run'.at
  BY HereAtPoint, HereAfterGoto, PointsAre DEF CompleteInit, At, LineInv
<1>3. /\ workers' = workers /\ ended' = ended /\ handles' = handles /\ outcome' = outcome /\ rows' = rows
  BY DEF CompleteInit, history
<1>4. ~Running /\ ~Running' /\ esql.queue = <<>> /\ HasFile
  BY <1>1, <1>2 DEF Running, CalmNow, Turns, Opens
<1>5. ended = <<>> /\ workers.opening = 0 /\ workers.opened = 0 /\ workers.query = 0 /\ ~esql.thread
  BY <1>2, ThreadsCounted DEF LineInv, CalmNow, OneWorker, Work
<1>6. OneWorker'
  BY <1>1, <1>2, <1>3 DEF CalmNow, OneWorker, Work
<1>7. Turns'
  BY <1>1, <1>2, <1>3, <1>4, <1>5 DEF CalmNow, Turns, Dials, Ending
<1>8. Rows'
  BY <1>1, <1>3, <1>4 DEF CalmNow, Rows, Dropped
<1>9. Opens'
  BY <1>1, <1>2, <1>3, <1>4, <1>5 DEF CalmNow, Opens, HasFile, Ending
<1> QED BY <1>6, <1>7, <1>8, <1>9 DEF CalmNow

\* What the main thread is at rest with when an ending has been handled.
LEMMA AtRest ==
  ASSUME LineInv, CalmNow, run.at \in {"complete", "error"}
  PROVE  /\ ended = <<>> /\ workers.opening = 0 /\ workers.opened = 0 /\ workers.query = 0
         /\ ~esql.thread /\ esql.stmt = None /\ ~esql.job
         /\ Here = run.at
         /\ esql.current = "query" => Running
<1>1. ended = <<>> /\ workers.opening = 0 /\ workers.opened = 0 /\ workers.query = 0 /\ ~esql.thread
  <2>1. /\ workers.opening \in Nat /\ workers.opened \in Nat /\ workers.query \in Nat /\ Len(ended) \in Nat
        /\ (ended = <<>> <=> Len(ended) = 0)
    BY ThreadsCounted DEF LineInv
  <2>2. workers.opening + workers.opened + workers.query + Len(ended) = 0 /\ ~esql.thread
    BY DEF CalmNow, OneWorker, Work
  <2> QED BY <2>1, <2>2, NoneOfFour
<1>2. Here = run.at /\ Here \in {"complete", "error"}
  BY HereAtPoint
<1>3. esql.current = "query" => Running
  BY <1>2 DEF CalmNow, Turns
<1>4. esql.stmt = None /\ ~esql.job
  BY DEF CalmNow, Turns
<1> QED BY <1>1, <1>2, <1>3, <1>4

LEMMA CalmCompleteQuery == ASSUME LineInv, CalmNow, LineInv', CompleteQuery PROVE CalmNow'
<1>1. PICK id \in Ids : id = esql.curId
  BY DEF CompleteQuery, LineInv, Line
<1>2. /\ esql'.current = "query" /\ esql'.curId = id /\ esql'.queue = esql.queue
      /\ esql'.connected = esql.connected /\ esql'.job = esql.job /\ esql'.thread = esql.thread
      /\ esql'.stmt = esql.stmt /\ esql'.db = esql.db /\ esql'.conn = esql.conn /\ esql'.res.rows = {}
      /\ dialler' = dialler
  BY <1>1, ObjectFields DEF history, CompleteQuery, ResGiven, NoRes, EsqlRec, LineInv
<1>3. /\ run.at = "complete" /\ run'.at \in {"result", "next"} /\ Here' = run'.at
  BY HereAfterGoto, PointsAre DEF CompleteQuery, At, LineInv
<1>4. /\ workers' = workers /\ ended' = ended /\ handles' = handles
      /\ outcome' = [outcome EXCEPT ![id] = "answer"] /\ rows' = [rows EXCEPT ![id] = esql.res.rows]
  BY <1>1 DEF CompleteQuery
<1>5. Running /\ outcome[id] = "none"
  BY <1>1, <1>3, AtRest DEF CompleteQuery, Running
<1>6. ~Running'
  BY <1>2, <1>4 DEF Running, LineInv, TypeOK
<1>7. Dropped' = Dropped
  BY <1>4, <1>5 DEF Dropped, LineInv, TypeOK
<1>8. OneWorker'
  BY <1>2, <1>3, <1>4 DEF CalmNow, OneWorker, Work
<1>9. Turns'
  BY <1>2, <1>3, <1>4, <1>6, AtRest DEF CalmNow, Turns, Dials, Ending
<1>10. Rows'
  <2>1. \A i \in Ids : rows'[i] = IF i = id THEN esql.res.rows ELSE rows[i]
    BY <1>4 DEF LineInv, TypeOK
  <2>2. esql.res.rows \subseteq {id} \cup Dropped
    BY <1>1, <1>5 DEF CalmNow, Rows
  <2> QED BY <1>2, <1>6, <1>7, <2>1, <2>2 DEF CalmNow, Rows
<1>11. Opens'
  BY <1>2, <1>3, <1>4, <1>5, <1>6, AtRest DEF CalmNow, Opens, HasFile, Ending
<1> QED BY <1>8, <1>9, <1>10, <1>11 DEF CalmNow

LEMMA CalmNextIdle == ASSUME LineInv, CalmNow, NextIdle PROVE CalmNow'
<1>1. /\ esql'.current = "none" /\ esql'.queue = <<>> /\ esql.queue = <<>>
      /\ esql'.connected = esql.connected /\ esql'.job = esql.job /\ esql'.thread = esql.thread
      /\ esql'.stmt = esql.stmt /\ esql'.db = esql.db /\ esql'.conn = esql.conn /\ esql'.res = esql.res
      /\ dialler' = dialler
  BY ObjectFields DEF history, NextIdle, EsqlRec, LineInv
<1>2. /\ run.at = "next" /\ run'.at = "loop" /\ Here = "next" /\ Here' = "loop"
  BY HereAtPoint, HereAfterGoto, PointsAre DEF NextIdle, At, LineInv
<1>3. /\ workers' = workers /\ ended' = ended /\ handles' = handles /\ outcome' = outcome /\ rows' = rows
  BY DEF NextIdle, history
<1>4. ~Running /\ ~Running'
  BY <1>1, <1>2 DEF LineInv, Control, Running
<1>5. OneWorker'
  BY <1>1, <1>2, <1>3 DEF CalmNow, OneWorker, Work
<1>6. Turns'
  BY <1>1, <1>2, <1>3, <1>4 DEF CalmNow, Turns, Dials, Ending
<1>7. Rows'
  BY <1>1, <1>3, <1>4 DEF CalmNow, Rows, Dropped
<1>8. Opens'
  BY <1>1, <1>2, <1>3, <1>4 DEF CalmNow, Opens, HasFile, Ending
<1> QED BY <1>5, <1>6, <1>7, <1>8 DEF CalmNow

LEMMA CalmErrorQuery == ASSUME LineInv, CalmNow, LineInv', ErrorQuery PROVE CalmNow'
<1>1. PICK id \in Ids : id = esql.curId
  BY DEF ErrorQuery, LineInv, Line
<1>2. /\ esql'.current = "query" /\ esql'.curId = id /\ esql'.queue = esql.queue
      /\ esql'.connected = esql.connected /\ esql'.job = esql.job /\ esql'.thread = esql.thread
      /\ esql'.stmt = esql.stmt /\ esql'.db = esql.db /\ esql'.conn = esql.conn
      /\ dialler' = dialler
  BY <1>1, ObjectFields DEF history, ErrorQuery, ResGiven, EsqlRec, LineInv
<1>3. /\ run.at = "error" /\ run'.at \in {"failed", "next"} /\ Here' = run'.at
  BY HereAfterGoto, PointsAre DEF ErrorQuery, At, LineInv
<1>4. workers' = workers /\ ended' = ended /\ handles' = handles /\ rows' = rows
  BY DEF ErrorQuery
<1>5. Running /\ outcome[id] = "none"
  BY <1>1, <1>3, AtRest DEF ErrorQuery, Running
<1>6. /\ outcome'[id] # "none" /\ \A i \in Ids \ {id} : outcome'[i] = outcome[i]
      /\ \/ esql'.res.rows = {}
         \/ esql'.res.rows = esql.res.rows /\ outcome'[id] = "dropped"
  <2>1. CASE id \in callbacks
    BY <1>1, <2>1, ObjectFields DEF ErrorQuery, ResGiven, NoRes, EsqlRec, LineInv, TypeOK
  <2>2. CASE id \notin callbacks
    BY <1>1, <1>5, <2>2 DEF ErrorQuery, LineInv, TypeOK
  <2> QED BY <2>1, <2>2
<1>7. ~Running'
  BY <1>2, <1>6 DEF Running
<1>8. Dropped \subseteq Dropped' /\ (outcome'[id] = "dropped" => Dropped \cup {id} \subseteq Dropped')
  BY <1>5, <1>6 DEF Dropped
<1>9. OneWorker'
  BY <1>2, <1>3, <1>4 DEF CalmNow, OneWorker, Work
<1>10. Turns'
  BY <1>2, <1>3, <1>4, <1>7, AtRest DEF CalmNow, Turns, Dials, Ending
<1>11. Rows'
  BY <1>1, <1>4, <1>5, <1>6, <1>7, <1>8 DEF CalmNow, Rows
<1>12. Opens'
  BY <1>2, <1>3, <1>4, <1>5, <1>7, AtRest DEF CalmNow, Opens, HasFile, Ending
<1> QED BY <1>9, <1>10, <1>11, <1>12 DEF CalmNow

LEMMA CalmNextQuery == ASSUME LineInv, CalmNow, LineInv', NextQuery PROVE CalmNow'
<1>1. PICK id \in Ids : id = Head(esql.queue)
  BY ObjectFields DEF NextQuery, LineInv
<1>2. Taken \in EsqlRec /\ Taken.current = "query" /\ Taken.curId = id /\ Taken.queue = Tail(esql.queue)
      /\ Taken.connected = esql.connected /\ Taken.job = esql.job /\ Taken.thread = esql.thread
      /\ Taken.stmt = esql.stmt /\ Taken.db = esql.db /\ Taken.conn = esql.conn /\ Taken.res = esql.res
  <2>1. Tail(esql.queue) \in Seq(Ids)
    BY ObjectFields DEF NextQuery, LineInv
  <2> QED BY <1>1, <2>1, ObjectFields DEF Taken, EsqlRec, LineInv
<1>3. /\ run.at = "next" /\ Here = "next" /\ ~Running
  BY HereAtPoint DEF NextQuery, At, LineInv, Control
<1>4. /\ ended = <<>> /\ workers.opening = 0 /\ workers.opened = 0 /\ workers.query = 0
      /\ ~esql.thread /\ ~esql.job /\ esql.stmt = None
  <2>1. ~Dials /\ workers.query = 0 /\ ~esql.job /\ esql.stmt = None
    BY <1>3 DEF NextQuery, CalmNow, Turns
  <2>2. workers.opening = 0 /\ workers.opened = 0 /\ ended = <<>>
    BY <1>3, <2>1, ThreadsCounted DEF Dials, LineInv
  <2>3. Len(ended) = 0
    BY <2>2
  <2> QED BY <2>1, <2>2, <2>3 DEF CalmNow, OneWorker, Work
<1>5. outcome[id] = "none" /\ id # None
  <2>1. id \in InQueue
    BY <1>1, ObjectFields DEF NextQuery, InQueue, LineInv
  <2> QED BY <2>1 DEF LineInv, Line, Ids, None
<1>6. /\ ended' = ended /\ outcome' = outcome /\ rows' = rows
      /\ esql'.current = "query" /\ esql'.curId = id /\ esql'.connected = esql.connected
      /\ ~esql'.job /\ esql'.db = esql.db /\ esql'.conn = esql.conn /\ esql'.res = esql.res
      /\ dialler' = dialler
  BY <1>2, <1>4 DEF NextQuery, history, Prepared, NotPrepared, WithWorker, EsqlRec
<1>7. Running' /\ Len(ended) = 0
  BY <1>4, <1>5, <1>6 DEF Running
<1>8. \/ /\ CanPrepare /\ HoldsStatement(id) /\ IoStarts
         /\ esql'.stmt = id /\ run'.at = "loop" /\ Here' = "loop"
      \/ /\ handles' = handles /\ workers' = workers /\ ~esql'.thread
         /\ esql'.stmt = None /\ run'.at = "error" /\ Here' = "error"
  BY <1>1, <1>2, <1>4, HereAfterGoto, PointsAre
     DEF NextQuery, IoRefuses, Prepared, NotPrepared, WithWorker, EsqlRec, LineInv
<1>9. CASE /\ CanPrepare /\ HoldsStatement(id) /\ IoStarts
           /\ esql'.stmt = id /\ run'.at = "loop" /\ Here' = "loop"
  <2>1. esql.db \in Handles /\ esql.db # None
    BY <1>9, ObjectFields DEF CanPrepare, LineInv
  <2>2. id \in handles'[esql.db].open /\ \A h \in Handles : handles'[h].file = handles[h].file
    BY <1>9, <2>1 DEF HoldsStatement, LineInv, TypeOK
  <2>3. workers'.opening = 0 /\ workers'.opened = 0 /\ workers'.query = 1
    BY <1>4, <1>9 DEF IoStarts, LineInv, TypeOK
  <2>4. OneWorker'
    BY <1>6, <1>7, <1>9, <2>3 DEF OneWorker, Work
  <2>5. Turns'
    BY <1>4, <1>6, <1>7, <1>9, <2>1, <2>2, <2>3 DEF Turns, Dials, Ending
  <2>6. Rows'
    BY <1>3, <1>6, <1>7 DEF CalmNow, Rows, Dropped
  <2>7. Opens'
    BY <1>4, <1>6, <1>7, <1>9, <2>1, <2>2, <2>3 DEF CalmNow, Opens, HasFile, Ending
  <2> QED BY <2>4, <2>5, <2>6, <2>7 DEF CalmNow
<1>10. CASE /\ handles' = handles /\ workers' = workers /\ ~esql'.thread
            /\ esql'.stmt = None /\ run'.at = "error" /\ Here' = "error"
  <2>1. OneWorker'
    BY <1>4, <1>6, <1>7, <1>10 DEF OneWorker, Work
  <2>2. Turns'
    BY <1>4, <1>6, <1>7, <1>10 DEF Turns, Dials, Ending
  <2>3. Rows'
    BY <1>3, <1>6, <1>7 DEF CalmNow, Rows, Dropped
  <2>4. Opens'
    BY <1>4, <1>6, <1>7, <1>10 DEF CalmNow, Opens, HasFile, Ending
  <2> QED BY <2>1, <2>2, <2>3, <2>4 DEF CalmNow
<1> QED BY <1>8, <1>9, <1>10

\* A dial that crossed something is not forgotten.
LEMMA CrossedStays == [Next]_vars /\ ~crossed' => ~crossed
  BY DEF Next, vars, history, Program, Worker, Chain, Sources,
         Connect, Disconnect, TimeoutSet, QueryCallbackSet, QueryStart, QueryRefused, QueryQueue, Accept,
         WorkerOpens, WorkerSaysInit, WorkerCannotOpen, WorkerRow, WorkerDone, WorkerFails, WorkerFindsNone,
         CloseEnds, CompleteInit, CompleteQuery, CompleteNothing, NextIdle, NextQuery, ErrorQuery, ErrorOther,
         Down, Retry, CbReturns, WorkerEnded, RunJob, TimeoutFires, ReconnectFires, DialStarts, Close

LEMMA CalmStep == LineInv /\ LineInv' /\ Calm /\ [Next]_vars => Calm'
<1> SUFFICES ASSUME LineInv, LineInv', CalmNow, [Next]_vars, ~crossed' PROVE CalmNow'
  BY CrossedStays DEF Calm, CalmNow
<1>1. TypeOK'
  BY DEF LineInv
<1>2. CASE Program
  BY <1>1, <1>2, CalmConnect, CalmProgramQuiet, CalmQueryStart, CalmQueryQueue DEF Program
<1>3. CASE Worker
  BY <1>1, <1>3, CalmWorkerOpens, CalmWorkerSaysInit, CalmWorkerCannotOpen, CalmWorkerRow,
     CalmWorkerDone, CalmWorkerFails, CalmWorkerFindsNone DEF Worker
<1>4. CASE Chain
  BY <1>1, <1>4, CalmCloseEnds, CalmCompleteInit, CalmCompleteQuery, CalmCompleteNothing, CalmNextIdle,
     CalmNextQuery, CalmErrorQuery, CalmErrorOther, CalmDown, CalmRetry, CalmCbReturns DEF Chain
<1>5. CASE Sources
  BY <1>1, <1>5, CalmWorkerEnded, CalmRunJob, CalmTimeoutFires, CalmReconnectFires DEF Sources
<1>6. CASE UNCHANGED vars
  <2>1. Running' = Running /\ Here' = Here /\ Dropped' = Dropped
    BY <1>6 DEF vars, Running, Here, Dropped
  <2> QED BY <1>6, <2>1 DEF vars, CalmNow, OneWorker, Work, Turns, Dials, Ending, Rows, Opens, HasFile
<1> QED BY <1>2, <1>3, <1>4, <1>5, <1>6 DEF Next

LEMMA CalmInit == Init => Calm
<1> SUFFICES ASSUME Init PROVE CalmNow
  BY DEF Calm, CalmNow
<1>1. /\ esql.current = "none" /\ ~esql.connected /\ esql.queue = <<>> /\ ~esql.job /\ esql.stmt = None
      /\ ~esql.thread /\ esql.res.rows = {}
      /\ workers.opening = 0 /\ workers.opened = 0 /\ workers.query = 0 /\ ended = <<>> /\ Len(ended) = 0
      /\ run.at = "loop" /\ Here = "loop"
  BY DEF Init, NoRes, Here
<1>2. ~Running
  BY <1>1 DEF Running
<1>3. OneWorker
  BY <1>1 DEF OneWorker, Work
<1>4. Turns
  BY <1>1, <1>2 DEF Turns, Dials, Ending
<1>5. Rows
  BY <1>1 DEF Rows, Init
<1>6. Opens
  BY <1>1 DEF Opens, Ending
<1> QED BY <1>3, <1>4, <1>5, <1>6 DEF CalmNow

LEMMA CalmInvariant == Spec => [](LineInv /\ Calm)
<1>1. LineInv /\ [Next]_vars => LineInv'
  BY TypeStep, EffectStep, LineStep DEF LineInv
<1>2. LineInv /\ Calm /\ [Next]_vars => (LineInv /\ Calm)'
  BY <1>1, CalmStep
<1>3. Init => LineInv /\ Calm
  BY LineInit, CalmInit
<1> QED BY <1>2, <1>3, PTL DEF Spec

----------------------------------------------------------------------------
(* The theorems *)

\* The rows of an answer are its query's, and a dropped query's that it found
\* there (esql_sqlite_query_cb adds to e->res, esql_call_complete hands it over).
THEOREM OwnRowsCorrect == Spec => []OwnRows
<1>1. Calm => OwnRows
  BY DEF Calm, Rows, OwnRows
<1> QED BY <1>1, CalmInvariant, PTL

\* While no dial has crossed anything and no close is under way, a connected
\* object has a handle, and if the program dialled last, of the file it named;
\* what the reconnect timer dials is not promised (esql_sqlite_connect_cb,
\* esql_sqlite_thread_end_cb, esql_sqlite_disconnect).
THEOREM SameFileCorrect == Spec => []SameFile
<1>1. Calm => SameFile
  BY DEF Calm, Opens, HasFile, SameFile
<1> QED BY <1>1, CalmInvariant, PTL

\* Nothing but a worker of a dial, or esql_next, says what the object is doing
\* while a query is under way, and neither does with nothing crossed.
LEMMA KeepsRunning ==
  ASSUME LineInv, CalmNow, LineInv', [Next]_vars, Running
  PROVE  esql'.current = "query"
<1>1. esql.current = "query" /\ run.at # "next"
  BY HereAtPoint DEF Running, LineInv, Control
<1>2. ~WorkerSaysInit /\ ~NextIdle
  BY <1>1, ThreadsCounted DEF WorkerSaysInit, NextIdle, At, LineInv, CalmNow, Turns
<1>3. ~NextQuery /\ ~QueryStart /\ ~CompleteInit
  BY <1>1 DEF NextQuery, QueryStart, CompleteInit, At, Busy
<1>4. CASE Program
  BY <1>1, <1>3, <1>4, ObjectFields
     DEF Program, Connect, Disconnect, TimeoutSet, QueryCallbackSet, QueryRefused, QueryQueue, Accept,
         NotPrepared, WithWorker, Named, Queued, LineInv, EsqlRec
<1>5. CASE Worker
  BY <1>1, <1>2, <1>5, ObjectFields
     DEF Worker, WorkerOpens, WorkerCannotOpen, WorkerRow, WorkerDone, WorkerFails, WorkerFindsNone,
         LineInv, EsqlRec
<1>6. CASE Chain
  BY <1>1, <1>2, <1>3, <1>6, ObjectFields
     DEF Chain, CloseEnds, CompleteQuery, CompleteNothing, ErrorQuery, ErrorOther, Down, Retry, CbReturns,
         Disconnected, ResGiven, LineInv, EsqlRec
<1>7. CASE Sources
  BY <1>1, <1>7, ObjectFields
     DEF Sources, WorkerEnded, RunJob, TimeoutFires, ReconnectFires, WithWorker, LineInv, EsqlRec
<1> QED BY <1>1, <1>4, <1>5, <1>6, <1>7 DEF Next, vars

\* With nothing crossed, every query accepted waits or has ended: the query
\* under way keeps its place until it has its outcome (esql_sqlite_connect_cb
\* against esql_call_complete, esql_event_error and esql_next).
THEOREM LostOnlyByCrossingCorrect == Spec => []LostOnlyByCrossing
<1>1. Init => LostOnlyByCrossing
  <2> SUFFICES ASSUME Init, NEW id \in Ids PROVE Outcome[id] # "lost"
    BY DEF LostOnlyByCrossing
  <2>1. Standing(id) = "none"
    BY DEF Init, Standing, Ids
  <2> QED BY <2>1, OutcomeIs
<1>2. LineInv /\ LineInv' /\ Calm /\ LostOnlyByCrossing /\ [Next]_vars => LostOnlyByCrossing'
  <2> SUFFICES ASSUME LineInv, LineInv', Calm, LostOnlyByCrossing, [Next]_vars, ~crossed', NEW id \in Ids
               PROVE  Outcome'[id] # "lost"
    BY DEF LostOnlyByCrossing
  <2>1. CalmNow /\ \A i \in Ids : Outcome[i] # "lost"
    BY CrossedStays DEF Calm, CalmNow, LostOnlyByCrossing
  <2>2. Service!Accept \/ Service!End \/ UNCHANGED Outcome
    BY <2>1, EffectStep, KeepsRunning, ServiceStepKeeps
  <2>3. CASE Service!Accept
    BY <2>1, <2>3, OutcomeIs DEF Service!Accept, Ids
  <2>4. CASE Service!End
    BY <2>1, <2>4, OutcomeIs DEF Service!End, Service!Leave, Ids
  <2>5. CASE UNCHANGED Outcome
    BY <2>1, <2>5
  <2> QED BY <2>2, <2>3, <2>4, <2>5
<1> QED BY <1>1, <1>2, CalmInvariant, PTL DEF Spec

\* Who may change backend.stmt while a query is under way and none has ended.
LEMMA StatementChanges ==
  ASSUME TypeOK, [Next]_vars, esql.current = "query", ended = <<>>, run.at # "next", esql'.stmt # esql.stmt
  PROVE  WorkerDone \/ WorkerFails
<1>1. ~QueryStart /\ ~QueryRefused
  BY DEF QueryStart, QueryRefused, Busy
<1>2. ~NextQuery /\ ~WorkerEnded
  BY DEF NextQuery, WorkerEnded, At
<1>3. ~Program /\ ~(UNCHANGED vars)
  BY <1>1, ObjectFields
     DEF Program, vars, Connect, Disconnect, TimeoutSet, QueryCallbackSet, QueryQueue, Accept,
         WithWorker, Named, Queued, EsqlRec
<1>4. ~Sources
  BY <1>2, ObjectFields DEF Sources, RunJob, TimeoutFires, ReconnectFires, WithWorker, EsqlRec
<1>5. ~Chain
  BY <1>2, ObjectFields
     DEF Chain, CloseEnds, CompleteInit, CompleteQuery, CompleteNothing, NextIdle, ErrorQuery, ErrorOther,
         Down, Retry, CbReturns, Disconnected, ResGiven, EsqlRec
<1> QED BY <1>3, <1>4, <1>5, ObjectFields
        DEF Next, Worker, WorkerOpens, WorkerSaysInit, WorkerCannotOpen, WorkerRow, WorkerFindsNone, EsqlRec

\* While a worker has a statement nobody else compiles or finalises one
\* (esql_sqlite_query_cb against esql_query, esql_next, esql_sqlite_thread_end_cb).
THEOREM OneUserCorrect == Spec => OneUser
<1>1. ASSUME LineInv, LineInv', Calm, [Next]_vars PROVE
        workers.query > 0 /\ esql.stmt # None /\ esql'.stmt # esql.stmt =>
          workers'.query < workers.query \/ crossed'
  <2> SUFFICES ASSUME ~crossed', workers.query > 0, esql.stmt # None, esql'.stmt # esql.stmt
               PROVE  workers'.query < workers.query
    BY <1>1
  <2>1. CalmNow
    BY <1>1, CrossedStays DEF Calm, CalmNow
  <2>2. Running /\ ended = <<>> /\ run.at \notin {"complete", "error"} /\ esql.current = "query"
    BY <1>1, <2>1, ThreadsCounted DEF LineInv, CalmNow, OneWorker, Work, Turns, Running
  <2>3. run.at # "next"
    BY <1>1, <2>2 DEF LineInv, Control, Here
  <2>4. WorkerDone \/ WorkerFails
    BY <1>1, <2>2, <2>3, StatementChanges DEF LineInv
  <2>5. workers' = [workers EXCEPT !.query = @ - 1]
    BY <2>4 DEF WorkerDone, WorkerFails, WorkerEnds
  <2> QED BY <1>1, <2>5 DEF LineInv, TypeOK
<1> QED BY <1>1, CalmInvariant, PTL DEF OneUser, Spec
=============================================================================
