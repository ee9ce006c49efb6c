------------------------- MODULE EsqlHandlerProofs -------------------------
(***************************************************************************)
(* Ecore watches a descriptor for one handler at a time.  A dial over a    *)
(* connection that is there leaves the first handler to ecore alone, with  *)
(* e->fdh NULL; nothing that follows gives the object a second one.        *)
(***************************************************************************)
EXTENDS EsqlProofs

USE SizeAssumption, PooledAssumption, MaxIdAssumption, SettingsAssumption,
    BudgetAssumption, DbNamesAssumption

\* OneHandler, of one object.
Single(s) == s.fdh = "none" \/ s.stray = "none"

SameHandlers(s, r) == r.fdh = s.fdh /\ r.stray = s.stray

----------------------------------------------------------------------------
(* What the helpers do to the handlers of an object *)

LEMMA ClosedSingle == ASSUME NEW s \in EsqlRec PROVE Single(Closed(s))
  BY DEF Single, Closed, EsqlRec

LEMMA ClosedTimersSingle ==
  ASSUME NEW s \in EsqlRec, NEW n PROVE Single([Closed(s) EXCEPT !.rtimers = n])
  BY DEF Single, Closed, EsqlRec

\* Arming changes a handler that is there, and makes none.
LEMMA ActiveSingle ==
  ASSUME NEW s \in EsqlRec, NEW h \in {"fdh", "stray"}, NEW state \in Handlers, Single(s)
  PROVE  Single(Active(s, h, state))
<1>1. /\ "fdh" \in DOMAIN s /\ "stray" \in DOMAIN s
  BY DEF EsqlRec
<1>2. CASE h = "fdh"
  BY <1>1, <1>2 DEF Single, Active, EsqlRec
<1>3. CASE h = "stray"
  BY <1>1, <1>3 DEF Single, Active, EsqlRec
<1> QED BY <1>2, <1>3

\* Neither does the creation of a handler over one that is there.
LEMMA WithHandlerSingle ==
  ASSUME NEW s \in EsqlRec, NEW state \in Handlers
  PROVE  Single(WithHandler(s, state))
<1>1. CASE s.fdh = "none" /\ s.stray = "none"
  BY <1>1 DEF Single, WithHandler, EsqlRec, Handlers
<1>2. CASE ~(s.fdh = "none" /\ s.stray = "none")
  BY <1>2 DEF Single, WithHandler, EsqlRec, Handlers
<1> QED BY <1>1, <1>2

LEMMA DialSingle ==
  ASSUME NEW s \in EsqlRec, s.m \in MYSAC, NEW r
  PROVE  /\ r \in Dialled(s) => Single(r)
         /\ r \in NotDialled(s) => SameHandlers(s, r)
<1>1. ASSUME r \in Dialled(s) PROVE Single(r)
  <2>1. PICK m \in MYSAC, state \in {"armed", "off"} :
          r = [WithHandler([s EXCEPT !.m = m], state) EXCEPT !.current = "init"]
    BY <1>1, ConnectTyped DEF Dialled
  <2> DEFINE a == [s EXCEPT !.m = m]
             w == WithHandler(a, state)
  <2>2. a \in EsqlRec /\ state \in Handlers
    BY DEF EsqlRec, Handlers
  <2> HIDE DEF a
  <2>3. w \in EsqlRec /\ Single(w)
    BY <2>2, WithHandlerTyped, WithHandlerSingle
  <2>4. r = [w EXCEPT !.current = "init"]
    BY <2>1 DEF a
  <2> HIDE DEF w
  <2> QED BY <2>3, <2>4 DEF Single, EsqlRec
<1>2. ASSUME r \in NotDialled(s) PROVE SameHandlers(s, r)
  BY <1>2 DEF NotDialled, SameHandlers, EsqlRec
<1> QED BY <1>1, <1>2

LEMMA SwitchSameHandlers ==
  ASSUME NEW s \in EsqlRec, NEW d PROVE SameHandlers(s, DatabaseSwitched(s, d))
  BY DEF SameHandlers, DatabaseSwitched, Enqueued, EsqlRec

\* Moving a query between members leaves their handlers where they are.
LEMMA RebalancedSameHandlers ==
  ASSUME TypeOK, NEW e \in Conns, NEW f \in Conns
  PROVE  SameHandlers(esql[f], Rebalanced(e)[f])
  BY RebalancedParts DEF SameHandlers

----------------------------------------------------------------------------
(* The steps *)

LEMMA SinglesStep ==
  ASSUME OneHandler, \A e \in Conns : SameHandlers(esql[e], esql'[e]) \/ Single(esql'[e])
  PROVE  OneHandler'
  BY DEF OneHandler, SameHandlers, Single

\* A step that changes one object.
LEMMA SingleStep ==
  ASSUME TypeOK, OneHandler, NEW e \in Conns, NEW s, esql' = [esql EXCEPT ![e] = s],
         SameHandlers(esql[e], s) \/ Single(s)
  PROVE  OneHandler'
<1>1. \A f \in Conns : SameHandlers(esql[f], esql'[f]) \/ Single(esql'[f])
  BY DEF TypeOK, SameHandlers
<1> QED BY <1>1, SinglesStep

LEMMA HandlerConnect == TypeInv /\ OneHandler /\ Connect => OneHandler'
<1> SUFFICES ASSUME TypeInv, OneHandler, Connect PROVE OneHandler'
  OBVIOUS
<1> DEFINE ready(e) == [esql[e] EXCEPT !.m = Setup(@)]
           dialled(e) == IF esql[e].connected THEN {esql[e]}
                         ELSE Dialled(ready(e)) \cup NotDialled(ready(e))
<1>1. \A e \in Conns : esql'[e] \in dialled(e)
  BY DEF Connect
<1>2. ASSUME NEW e \in Conns PROVE SameHandlers(esql[e], esql'[e]) \/ Single(esql'[e])
  <2>1. esql[e] \in EsqlRec /\ esql[e].m \in MYSAC
    BY ObjectTyped DEF TypeInv
  <2>2. /\ ready(e) \in EsqlRec /\ ready(e).m \in MYSAC
        /\ SameHandlers(esql[e], ready(e))
    BY <2>1, CommandsTyped DEF EsqlRec, SameHandlers
  <2>3. CASE esql[e].connected
    BY <1>1, <2>3 DEF SameHandlers
  <2>4. CASE ~esql[e].connected
    <3> HIDE DEF ready
    <3>1. esql'[e] \in Dialled(ready(e)) \/ esql'[e] \in NotDialled(ready(e))
      BY <1>1, <2>4
    <3> QED BY <2>2, <3>1, DialSingle DEF SameHandlers
  <2> QED BY <2>3, <2>4
<1> QED BY <1>2, SinglesStep

LEMMA HandlerDisconnect == TypeInv /\ OneHandler /\ Disconnect => OneHandler'
<1> SUFFICES ASSUME TypeInv, OneHandler, Disconnect PROVE OneHandler'
  OBVIOUS
<1>1. ASSUME NEW e \in Conns PROVE SameHandlers(esql[e], esql'[e]) \/ Single(esql'[e])
  <2>1. esql'[e] = esql[e] \/ esql'[e] = Closed(esql[e])
    BY DEF Disconnect
  <2> QED BY <2>1, ObjectTyped, ClosedSingle DEF TypeInv, SameHandlers
<1> QED BY <1>1, SinglesStep

LEMMA HandlerDatabaseSet == \A d \in DbNames : TypeInv /\ OneHandler /\ DatabaseSet(d) => OneHandler'
<1> SUFFICES ASSUME NEW d \in DbNames, TypeInv, OneHandler, DatabaseSet(d) PROVE OneHandler'
  OBVIOUS
<1>1. \A e \in Conns : SameHandlers(esql[e], esql'[e])
  BY ObjectTyped, SwitchSameHandlers DEF DatabaseSet, TypeInv
<1> QED BY <1>1, SinglesStep

LEMMA HandlerTimeoutSet == \A on \in BOOLEAN : TypeInv /\ OneHandler /\ TimeoutSet(on) => OneHandler'
<1> SUFFICES ASSUME NEW on \in BOOLEAN, TypeInv, OneHandler, TimeoutSet(on) PROVE OneHandler'
  OBVIOUS
<1>1. ASSUME NEW e \in Conns PROVE SameHandlers(esql[e], esql'[e])
  <2>1. esql'[e] = [esql[e] EXCEPT !.timeout = on] /\ esql[e] \in EsqlRec
    BY ObjectTyped DEF TimeoutSet, TypeInv
  <2> QED BY <2>1 DEF SameHandlers, EsqlRec
<1> QED BY <1>1, SinglesStep

LEMMA HandlerQuery ==
  \A t \in Conns : TypeInv /\ OneHandler /\ (QueryStart(t) \/ QueryQueue(t) \/ QueryRefused(t))
                     => OneHandler'
<1> SUFFICES ASSUME NEW t \in Conns, TypeInv, OneHandler,
                    QueryStart(t) \/ QueryQueue(t) \/ QueryRefused(t)
             PROVE  OneHandler'
  OBVIOUS
<1>1. esql[t] \in EsqlRec /\ TypeOK
  BY ObjectTyped DEF TypeInv
<1>2. CASE QueryStart(t)
  <2>1. esql' = [esql EXCEPT ![t] = Started(esql[t], lastId + 1)]
    BY <1>2 DEF QueryStart, Issue
  <2>2. SameHandlers(esql[t], Started(esql[t], lastId + 1))
    BY <1>1 DEF Started, EsqlRec, SameHandlers
  <2> QED BY <1>1, <2>1, <2>2, SingleStep
<1>3. CASE QueryQueue(t)
  <2>1. PICK call : esql' = [esql EXCEPT ![t] = Enqueued(esql[t], call)]
    BY <1>3 DEF QueryQueue, Issue
  <2>2. SameHandlers(esql[t], Enqueued(esql[t], call))
    BY <1>1 DEF Enqueued, EsqlRec, SameHandlers
  <2> QED BY <1>1, <2>1, <2>2, SingleStep
<1>4. CASE QueryRefused(t)
  <2>1. PICK m : esql' = [esql EXCEPT ![t] = [esql[t] EXCEPT !.m = m]]
    BY <1>1, <1>4 DEF QueryRefused, TypeOK
  <2>2. SameHandlers(esql[t], [esql[t] EXCEPT !.m = m])
    BY <1>1 DEF EsqlRec, SameHandlers
  <2> QED BY <1>1, <2>1, <2>2, SingleStep
<1> QED BY <1>2, <1>3, <1>4

LEMMA HandlerProgram == TypeInv /\ OneHandler /\ Program => OneHandler'
<1>1. \A on \in BOOLEAN : OneHandler /\ ReconnectSet(on) => OneHandler'
  BY DEF ReconnectSet, OneHandler
<1>2. \A id \in Ids : OneHandler /\ QueryCallbackSet(id) => OneHandler'
  BY DEF QueryCallbackSet, OneHandler
<1> QED BY <1>1, <1>2, HandlerConnect, HandlerDisconnect, HandlerDatabaseSet, HandlerTimeoutSet,
           HandlerQuery DEF Program

LEMMA HandlerFdReady == \A e \in Conns : TypeInv /\ OneHandler /\ FdReady(e) => OneHandler'
<1> SUFFICES ASSUME NEW e \in Conns, TypeInv, OneHandler, FdReady(e) PROVE OneHandler'
  OBVIOUS
<1>1. esql[e] \in EsqlRec /\ Single(esql[e]) /\ TypeOK
  BY ObjectTyped DEF TypeInv, OneHandler, Single
<1>2. PICK h \in {"fdh", "stray"} : esql' = [esql EXCEPT ![e] = Active(esql[e], h, "off")]
  BY DEF FdReady
<1>3. Single(Active(esql[e], h, "off"))
  BY <1>1, ActiveSingle DEF Handlers
<1> QED BY <1>1, <1>2, <1>3, SingleStep

LEMMA HandlerRunJob == \A e \in Conns : TypeInv /\ OneHandler /\ RunJob(e) => OneHandler'
<1> SUFFICES ASSUME NEW e \in Conns, TypeInv, OneHandler, RunJob(e) PROVE OneHandler'
  OBVIOUS
<1> DEFINE s == [esql[e] EXCEPT !.job = FALSE]
<1>1. s \in EsqlRec /\ Single(s) /\ TypeOK
  BY ObjectTyped DEF TypeInv, OneHandler, Single, EsqlRec
<1>2. esql' = [esql EXCEPT ![e] = Active(s, "fdh", "off")]
  BY DEF RunJob
<1> HIDE DEF s
<1>3. Single(Active(s, "fdh", "off"))
  BY <1>1, ActiveSingle DEF Handlers
<1> QED BY <1>1, <1>2, <1>3, SingleStep

LEMMA HandlerCloseAndRetry ==
  ASSUME TypeInv, OneHandler, NEW e \in Conns, NEW s \in EsqlRec, CloseAndRetry(e, s)
  PROVE  OneHandler'
<1>1. PICK n : esql' = [esql EXCEPT ![e] = [Closed(s) EXCEPT !.rtimers = n]]
  BY DEF CloseAndRetry
<1> QED BY <1>1, ClosedTimersSingle, SingleStep DEF TypeInv

LEMMA HandlerTimeoutFires == \A e \in Conns : TypeInv /\ OneHandler /\ TimeoutFires(e) => OneHandler'
<1> SUFFICES ASSUME NEW e \in Conns, TypeInv, OneHandler, TimeoutFires(e) PROVE OneHandler'
  OBVIOUS
<1>1. [esql[e] EXCEPT !.timeout = FALSE] \in EsqlRec
  BY ObjectTyped DEF TypeInv, EsqlRec
<1> QED BY <1>1, HandlerCloseAndRetry DEF TimeoutFires

\* The timer's dial may find a handler of a connection that is up, or of a dial.
LEMMA HandlerReconnectFires ==
  \A e \in Conns : TypeInv /\ OneHandler /\ ReconnectFires(e) => OneHandler'
<1> SUFFICES ASSUME NEW e \in Conns, TypeInv, OneHandler, ReconnectFires(e) PROVE OneHandler'
  OBVIOUS
<1> DEFINE s == [esql[e] EXCEPT !.rtimers = @ - 1]
<1>1. /\ s \in EsqlRec /\ s.m \in MYSAC
      /\ SameHandlers(esql[e], s)
  <2>1. /\ esql[e] \in EsqlRec /\ esql[e].m \in MYSAC
        /\ esql[e].rtimers - 1 \in Nat
    BY ObjectTyped DEF TypeInv, EsqlRec, ReconnectFires
  <2> QED BY <2>1 DEF EsqlRec, SameHandlers
<1>2. \/ \E r \in Dialled(s) :
             esql' = [esql EXCEPT ![e] = IF database = NoDb THEN r ELSE DatabaseSwitched(r, database)]
      \/ \E r \in NotDialled(s) : esql' = [esql EXCEPT ![e] = r]
  BY DEF ReconnectFires
<1> HIDE DEF s
<1>3. CASE \E r \in NotDialled(s) : esql' = [esql EXCEPT ![e] = r]
  <2>1. PICK r \in NotDialled(s) : esql' = [esql EXCEPT ![e] = r]
    BY <1>3
  <2>2. SameHandlers(esql[e], r)
    BY <1>1, <2>1, DialSingle DEF SameHandlers
  <2> QED BY <2>1, <2>2, SingleStep DEF TypeInv
<1>4. ASSUME NEW r \in Dialled(s),
             esql' = [esql EXCEPT ![e] = IF database = NoDb THEN r ELSE DatabaseSwitched(r, database)]
      PROVE  OneHandler'
  <2>1. r \in EsqlRec /\ Single(r)
    BY <1>1, DialTyped, DialSingle
  <2>2. Single(DatabaseSwitched(r, database))
    BY <2>1, SwitchSameHandlers DEF SameHandlers, Single
  <2>3. PICK w : esql' = [esql EXCEPT ![e] = w] /\ Single(w)
    BY <1>4, <2>1, <2>2
  <2> QED BY <2>3, SingleStep DEF TypeInv
<1> QED BY <1>2, <1>3, <1>4

\* Freeing a result touches the client alone.
LEMMA HandlerErrorCleared ==
  ASSUME TypeInv, OneHandler, FreesError \/ UNCHANGED esql
  PROVE  OneHandler'
  BY ClearedKeeps, SinglesStep DEF SameHandlers

LEMMA HandlerIo == \A e \in Conns : TypeInv /\ OneHandler /\ Io(e) => OneHandler'
<1> SUFFICES ASSUME NEW e \in Conns, TypeInv, OneHandler, Io(e) PROVE OneHandler'
  OBVIOUS
<1>1. /\ esql[e] \in EsqlRec /\ esql[e].m \in MYSAC /\ Single(esql[e])
      /\ TypeOK /\ run.h \in {"fdh", "stray"}
  BY ObjectTyped DEF TypeInv, TypeOK, OneHandler, Single
<1>2. CASE IoWait(e)
  <2>1. PICK m \in MYSAC : esql' = [esql EXCEPT ![e] = Active([esql[e] EXCEPT !.m = m], run.h, "armed")]
    BY <1>1, <1>2, IoTyped DEF IoWait
  <2> DEFINE s == [esql[e] EXCEPT !.m = m]
  <2>2. s \in EsqlRec /\ Single(s)
    BY <1>1, <2>1 DEF EsqlRec, Single
  <2> HIDE DEF s
  <2>3. esql' = [esql EXCEPT ![e] = Active(s, run.h, "armed")]
    BY <2>1 DEF s
  <2>4. Single(Active(s, run.h, "armed"))
    BY <1>1, <2>2, ActiveSingle DEF Handlers
  <2> QED BY <1>1, <2>3, <2>4, SingleStep
<1>3. CASE IoDone(e) \/ IoFail(e)
  <2>1. PICK m : esql' = [esql EXCEPT ![e] = [esql[e] EXCEPT !.m = m]]
    BY <1>1, <1>3 DEF IoDone, IoFail, TypeOK
  <2>2. SameHandlers(esql[e], [esql[e] EXCEPT !.m = m])
    BY <1>1 DEF EsqlRec, SameHandlers
  <2> QED BY <1>1, <2>1, <2>2, SingleStep
<1> QED BY <1>2, <1>3 DEF Io

LEMMA HandlerComplete == \A e \in Conns : TypeInv /\ OneHandler /\ Complete(e) => OneHandler'
<1> SUFFICES ASSUME NEW e \in Conns, TypeInv, OneHandler, Complete(e) PROVE OneHandler'
  OBVIOUS
<1>1. CASE CompleteInit(e)
  <2>1. esql' = [esql EXCEPT ![e] = [esql[e] EXCEPT !.connected = TRUE]] /\ esql[e] \in EsqlRec
    BY <1>1, ObjectTyped DEF CompleteInit, TypeInv, TypeOK
  <2>2. SameHandlers(esql[e], [esql[e] EXCEPT !.connected = TRUE])
    BY <2>1 DEF EsqlRec, SameHandlers
  <2> QED BY <2>1, <2>2, SingleStep DEF TypeInv
<1>2. CASE CompleteQuery(e) \/ CompleteOther(e)
  BY <1>2 DEF CompleteQuery, CompleteOther, OneHandler
<1> QED BY <1>1, <1>2 DEF Complete

LEMMA HandlerNextIdle == \A e \in Conns : TypeInv /\ OneHandler /\ NextIdle(e) => OneHandler'
<1> SUFFICES ASSUME NEW e \in Conns, TypeInv, OneHandler, NextIdle(e) PROVE OneHandler'
  OBVIOUS
<1>1. esql' = [esql EXCEPT ![e] = Finished(esql[e])] /\ esql[e] \in EsqlRec
  BY ObjectTyped DEF NextIdle, TypeInv
<1>2. SameHandlers(esql[e], Finished(esql[e]))
  BY <1>1 DEF Finished, EsqlRec, SameHandlers
<1> QED BY <1>1, <1>2, SingleStep DEF TypeInv

LEMMA HandlerNextDatabase == \A e \in Conns : TypeInv /\ OneHandler /\ NextDatabase(e) => OneHandler'
<1> SUFFICES ASSUME NEW e \in Conns, TypeInv, OneHandler, NextDatabase(e) PROVE OneHandler'
  OBVIOUS
<1> DEFINE s == Finished(esql[e])
<1>1. PICK d, q :
        esql' = [esql EXCEPT ![e] = Active([DatabaseSwitched(s, d) EXCEPT !.queue = q], "fdh", "off")]
  BY DEF NextDatabase
<1>2. s \in EsqlRec /\ Single(s)
  BY ObjectTyped DEF Finished, EsqlRec, Currents, TypeInv, OneHandler, Single
<1> HIDE DEF s
<1> DEFINE w == DatabaseSwitched(s, d)
           r == [w EXCEPT !.queue = q]
<1>3. SameHandlers(s, w)
  BY <1>2, SwitchSameHandlers
<1>4. "fdh" \in DOMAIN r /\ SameHandlers(w, r)
  BY <1>2 DEF DatabaseSwitched, Enqueued, EsqlRec, SameHandlers
<1>5. esql' = [esql EXCEPT ![e] = Active(r, "fdh", "off")]
  BY <1>1
<1> HIDE DEF w, r
<1>6. Single(r)
  BY <1>2, <1>3, <1>4 DEF SameHandlers, Single
<1>7. Single(Active(r, "fdh", "off"))
  BY <1>4, <1>6 DEF Single, Active
<1> QED BY <1>5, <1>7, SingleStep DEF TypeInv

LEMMA HandlerNextQuery == \A e \in Conns : TypeInv /\ OneHandler /\ NextQuery(e) => OneHandler'
<1> SUFFICES ASSUME NEW e \in Conns, TypeInv, OneHandler, NextQuery(e) PROVE OneHandler'
  OBVIOUS
<1> DEFINE all == Rebalanced(e)
<1>1. PICK m, id, r :
        /\ esql' = [all EXCEPT ![e] = r]
        /\ r \in {Taken([all[e] EXCEPT !.m = m], id), Active(Taken([all[e] EXCEPT !.m = m], id), "fdh", "off")}
  BY DEF NextQuery
<1>2. /\ all \in [Conns -> EsqlRec]
      /\ \A f \in Conns : SameHandlers(esql[f], all[f])
  BY RebalancedTyped, RebalancedSameHandlers DEF TypeInv
<1> HIDE DEF all
<1> DEFINE t == Taken([all[e] EXCEPT !.m = m], id)
<1>3. "fdh" \in DOMAIN t /\ SameHandlers(all[e], t) /\ r \in {t, Active(t, "fdh", "off")}
  BY <1>1, <1>2 DEF Taken, EsqlRec, SameHandlers
<1>4. Single(all[e])
  BY <1>2 DEF OneHandler, SameHandlers, Single
<1> HIDE DEF t
<1>5. Single(r)
  <2>1. Single(t)
    BY <1>3, <1>4 DEF SameHandlers, Single
  <2>2. Single(Active(t, "fdh", "off"))
    BY <1>3, <2>1 DEF Single, Active
  <2> QED BY <1>3, <2>1, <2>2
<1>6. \A f \in Conns : SameHandlers(esql[f], esql'[f]) \/ Single(esql'[f])
  BY <1>1, <1>2, <1>5
<1> QED BY <1>6, SinglesStep

LEMMA HandlerError == \A e \in Conns : TypeInv /\ OneHandler /\ Error(e) => OneHandler'
<1> SUFFICES ASSUME NEW e \in Conns, TypeInv, OneHandler, Error(e) PROVE OneHandler'
  OBVIOUS
<1>1. CASE ErrorQuery(e) \/ ErrorOther(e)
  BY <1>1 DEF ErrorQuery, ErrorOther, OneHandler
<1>2. CASE Down(e)
  BY <1>2, ObjectTyped, HandlerCloseAndRetry DEF Down, TypeInv
<1> QED BY <1>1, <1>2 DEF Error

LEMMA HandlerStep == TypeInv /\ OneHandler /\ [Next]_vars => OneHandler'
<1> SUFFICES ASSUME TypeInv, OneHandler, [Next]_vars PROVE OneHandler'
  OBVIOUS
<1>1. CASE UNCHANGED vars
  BY <1>1 DEF vars, OneHandler
<1>2. ASSUME NEW e \in Conns, Sources(e) PROVE OneHandler'
  BY <1>2, HandlerFdReady, HandlerRunJob, HandlerTimeoutFires, HandlerReconnectFires DEF Sources
<1>3. ASSUME NEW e \in Conns, CbReturns(e) PROVE OneHandler'
  BY <1>3, HandlerErrorCleared DEF CbReturns, ConnectCbReturns, QueryCbReturns, ResultReturned
<1>4. ASSUME NEW e \in Conns, NextCall(e) PROVE OneHandler'
  BY <1>4, HandlerNextIdle, HandlerNextDatabase, HandlerNextQuery DEF NextCall
<1>5. ASSUME NEW e \in Conns, Chain(e) PROVE OneHandler'
  BY <1>3, <1>4, <1>5, HandlerIo, HandlerComplete, HandlerError DEF Chain
<1>6. CASE ResultEvent \/ ResultUnref
  BY <1>6, HandlerErrorCleared DEF ResultEvent, ResultUnref, ResultReturned
<1> QED BY <1>1, <1>2, <1>5, <1>6, HandlerProgram DEF Next

\* Of any number of connections none ever has two handlers registered, however
\* many dials, reconnect timers and disconnects come between: a dial over a
\* connection that has one never adds a second (src/lib/esql_connect.c:66).
THEOREM OneHandlerCorrect == Spec => []OneHandler
<1>1. Init => OneHandler
  BY DEF Init, OneHandler, NewEsql
<1>2. TypeInv /\ OneHandler /\ [Next]_vars => OneHandler'
  BY HandlerStep
<1> QED BY <1>1, <1>2, TypeInvariant, PTL DEF Spec

----------------------------------------------------------------------------
(***************************************************************************)
(* What moves a connection on.  The invariant LinkInv says, of the object  *)
(* the chain is going through (Held) and of every other (Free), which      *)
(* handler, job or client state there is to continue its handshake or its  *)
(* query.                                                                  *)
(***************************************************************************)

\* The client of an object: its socket, and its exchange in a handshake.
Client(s) ==
  /\ s.m.sock = "none" => s.m.proto \in {"start", "failed", "query", "db"}
  /\ s.current = "init" => s.m.proto \in {"start", "auth", "authed", "failed"}

\* Without a handler an object is not connected, and has no handshake to hear of.
Quiet(s) == ~HasHandler(s) => ~s.connected /\ (s.current = "init" => s.m.sock = "none")

\* A handler that is left on an object not connected waits for its descriptor,
\* or the client's next io will not wait.
Kept(s) == ~s.connected /\ HasHandler(s) => Armed(s) \/ s.m.proto \notin {"start", "auth"}

\* A query under way on an object not connected any more: the same of its client.
Left(s) == s.current = "query" /\ ~s.connected /\ HasHandler(s) => s.m.proto \notin {"start", "auth"}

\* Wakeable, of one object.
Woken(s) ==
  s.connected /\ s.stray = "none" /\ s.current \in {"init", "query"} => s.job \/ s.fdh = "armed"

Free(s) ==
  /\ ~HasHandler(s) => ~s.connected /\ (s.current = "init" => s.m.sock = "none" \/ ~s.job)
  /\ Woken(s) /\ Kept(s) /\ Left(s)

\* Of the object the chain goes through, at each of its points.
Held(r, s) ==
  /\ r.at = "io" =>
       /\ ~HasHandler(s) => ~s.connected /\ (s.current = "init" => s.m.sock = "none" /\ ~s.job)
       /\ r.h = "stray" => s.stray # "none"
       /\ r.h = "fdh" /\ s.fdh = "none" => Kept(s)
       /\ Left(s)
  /\ r.at = "complete" => Quiet(s) /\ Kept(s) /\ (s.current = "init" => HasHandler(s))
  /\ r.at = "error" => Quiet(s) /\ (s.current = "query" => Kept(s))
  /\ r.at \in {"ready", "result", "failed", "next"} => Quiet(s) /\ Kept(s)

(* While the program is called back for events alone *)

\* An object with a handler is connected or in its handshake.
Seen(s) == HasHandler(s) => s.connected \/ s.current = "init"

\* One without has no client that has logged in, nor a job that could log it in.
Noticed(s) ==
  /\ Seen(s)
  /\ ~HasHandler(s) => s.m.sock = "none" \/ (s.m.proto \in {"start", "auth", "failed"} /\ ~s.job)

Noted(r, s) ==
  /\ Seen(s)
  /\ ~HasHandler(s) => s.m.sock = "none" /\ ~s.job
  /\ r.at = "next" /\ HasHandler(s) => s.connected

LinkOf(e) ==
  /\ Client(esql[e])
  /\ IF Busy(e) THEN Held(run, esql[e]) /\ (NoCallbacks => Noted(run, esql[e]))
     ELSE Free(esql[e]) /\ (NoCallbacks => Noticed(esql[e]))

CallbackPoints == {"ready", "result", "failed", "refused"}

LinkInv ==
  /\ budget["callback"] <= Budget["callback"]
  /\ NoCallbacks => callbacks = {} /\ run.at \notin CallbackPoints
  /\ \A e \in Conns : LinkOf(e)

----------------------------------------------------------------------------
(* The client's calls *)

LEMMA ClientWaits ==
  ASSUME NEW m \in MYSAC, NEW n \in Waiting(m)
  PROVE  \/ m.proto = "start" /\ n.proto = "auth" /\ n.sock = "live"
         \/ /\ m.proto \in {"auth", "db", "query", "queryDone"} /\ n.proto = m.proto
            /\ n.sock = m.sock /\ (m.proto = "auth" => m.sock # "dead")
<1>1. /\ [m EXCEPT !.proto = "auth", !.sock = "live"].proto = "auth"
      /\ [m EXCEPT !.proto = "auth", !.sock = "live"].sock = "live"
      /\ ClearError(m).proto = m.proto /\ ClearError(m).sock = m.sock
  BY DEF MYSAC, ClearError
<1>2. CASE m.proto = "start"
  BY <1>1, <1>2 DEF Waiting, Talking, Exchange
<1>3. CASE m.proto # "start" /\ (Talking(m) \/ m.proto = "queryDone")
  BY <1>1, <1>3 DEF Waiting, Talking, Exchange
<1>4. CASE m.proto # "start" /\ ~(Talking(m) \/ m.proto = "queryDone")
  BY <1>1, <1>4 DEF Waiting, Talking, Exchange
<1> QED BY <1>2, <1>3, <1>4

LEMMA ClientDone ==
  ASSUME NEW m \in MYSAC, NEW n \in Done(m)
  PROVE  /\ n.sock = m.sock
         /\ \/ /\ m.sock = "live"
               /\ <<m.proto, n.proto>> \in
                    {<<"auth", "authed">>, <<"db", "dbDone">>, <<"query", "queryDone">>}
            \/ m.proto \in {"authed", "dbDone", "queryDone"} /\ n.proto = m.proto
<1>1. /\ Ended(m).sock = m.sock
      /\ m.proto = "auth" => Ended(m).proto = "authed"
      /\ m.proto = "db" => Ended(m).proto = "dbDone"
      /\ m.proto = "query" => Ended(m).proto = "queryDone"
      /\ ClearError(Ended(m)).sock = Ended(m).sock /\ ClearError(Ended(m)).proto = Ended(m).proto
  BY DEF MYSAC, Ended, ClearError
<1> HIDE DEF Ended
<1>2. CASE Talking(m)
  BY <1>1, <1>2 DEF Done, Talking, Exchange
<1>3. CASE ~Talking(m)
  BY <1>3 DEF Done
<1> QED BY <1>2, <1>3

LEMMA ClientFails ==
  ASSUME NEW m \in MYSAC, NEW n \in Failing(m)
  PROVE  /\ \/ n.proto = "failed"
            \/ n.proto = "start" /\ m.proto = "start" /\ n.sock = m.sock
            \/ n.proto = "start" /\ m.proto = "auth" /\ n.sock = "none"
         /\ m.sock = "none" /\ m.proto # "queryDone" => n.sock = "none"
<1> DEFINE unreachable == [SetError(m) EXCEPT !.proto = "start", !.sock = "none"]
<1>1. /\ unreachable.proto = "start" /\ unreachable.sock = "none"
      /\ SetError(m).proto = m.proto /\ SetError(m).sock = m.sock
  BY DEF MYSAC, SetError
<1>2. ASSUME NEW s, NEW k \in Breaking(m, s) PROVE k.proto = "failed" /\ k.sock = s
  BY <1>2 DEF Breaking, Broken, SetError, MYSAC
<1>3. Failing(m) =
        CASE m.proto = "start" -> {SetError(m)}
          [] Doomed(m) -> Breaking(m, m.sock)
          [] Talking(m) /\ m.proto = "auth" ->
               {unreachable} \cup Breaking(m, "live") \cup Breaking(m, "dead")
          [] (Talking(m) /\ m.proto # "auth") \/ m.proto = "queryDone" ->
               Breaking(m, "live") \cup Breaking(m, "dead")
          [] OTHER -> {}
  BY DEF Failing
<1> HIDE DEF unreachable
<1>4. CASE m.proto = "start"
  BY <1>1, <1>3, <1>4 DEF Doomed, Talking, Exchange
<1>5. CASE Doomed(m)
  BY <1>1, <1>2, <1>3, <1>5 DEF Doomed, Talking, Exchange
<1>6. CASE Talking(m) /\ m.proto = "auth"
  BY <1>1, <1>2, <1>3, <1>6 DEF Doomed, Talking, Exchange
<1>7. CASE (Talking(m) /\ m.proto # "auth") \/ m.proto = "queryDone"
  BY <1>1, <1>2, <1>3, <1>7 DEF Doomed, Talking, Exchange
<1> QED BY <1>3, <1>4, <1>5, <1>6, <1>7

----------------------------------------------------------------------------
(* What the helpers keep of an object *)

\* What the invariant sees of two objects is the same.
Alike(s, r) ==
  /\ SameHandlers(s, r)
  /\ r.current = s.current /\ r.connected = s.connected
  /\ r.job = s.job /\ r.rtimers = s.rtimers
  /\ r.m.proto = s.m.proto /\ r.m.sock = s.m.sock

\* Trying, of one object; b: the chain is going through it.
Tries(s, b) ==
  \/ s.connected \/ s.rtimers > 0
  \/ s.current = "init" /\ (Armed(s) \/ (b /\ HasHandler(s)))

\* Whatever the invariant says of s outside the chain, or in a callback, it
\* says of r.
Keeps(s, r) ==
  /\ Client(r)
  /\ Free(s) => Free(r) /\ (Noticed(s) => Noticed(r))
  /\ Quiet(s) /\ Kept(s) => Quiet(r) /\ Kept(r)

TriesOn(s, r) == \A b \in BOOLEAN : Tries(s, b) => Tries(r, b)

LEMMA AlikeKeeps ==
  ASSUME NEW s, NEW r, Client(s), Alike(s, r) PROVE Keeps(s, r) /\ TriesOn(s, r)
<1>1. /\ r.fdh = s.fdh /\ r.stray = s.stray
      /\ r.current = s.current /\ r.connected = s.connected
      /\ r.job = s.job /\ r.rtimers = s.rtimers
      /\ r.m.proto = s.m.proto /\ r.m.sock = s.m.sock
  BY DEF Alike, SameHandlers
<1>2. /\ HasHandler(r) <=> HasHandler(s)
      /\ Armed(r) <=> Armed(s)
  BY <1>1 DEF HasHandler, Armed
<1>3. Client(r)
  BY <1>1 DEF Client
<1>4. /\ Quiet(s) => Quiet(r)
      /\ Kept(s) => Kept(r)
  BY <1>1, <1>2 DEF Quiet, Kept
<1>5. /\ Free(s) => Free(r)
      /\ Noticed(s) => Noticed(r)
  BY <1>1, <1>2, <1>4 DEF Free, Woken, Left, Noticed, Seen
<1>6. TriesOn(s, r)
  BY <1>1, <1>2 DEF TriesOn, Tries
<1> QED BY <1>3, <1>4, <1>5, <1>6 DEF Keeps

\* A closed object has nothing to wait for.
LEMMA ClosedKeeps ==
  ASSUME NEW s \in EsqlRec, NEW r, NEW n, r = [Closed(s) EXCEPT !.rtimers = n] \/ r = Closed(s)
  PROVE  /\ Client(r) /\ Free(r) /\ Noticed(r) /\ Quiet(r) /\ Kept(r)
         /\ Keeps(s, r)
<1>1. /\ r.fdh = "none" /\ r.stray = "none" /\ r.connected = FALSE
      /\ r.m = Fresh
  <2>1. CASE r = Closed(s)
    BY <2>1 DEF Closed, EsqlRec
  <2>2. CASE r = [Closed(s) EXCEPT !.rtimers = n]
    BY <2>2 DEF Closed, EsqlRec
  <2> QED BY <2>1, <2>2
<1>2. ~HasHandler(r)
  BY <1>1 DEF HasHandler
<1>3. Client(r) /\ Quiet(r) /\ Kept(r)
  BY <1>1, <1>2 DEF Client, Quiet, Kept, Fresh
<1>4. Free(r) /\ Noticed(r)
  BY <1>1, <1>2, <1>3 DEF Fresh, Free, Woken, Left, Noticed, Seen
<1> QED BY <1>3, <1>4 DEF Keeps

\* The handler of a new dial.
LEMMA HandlerMade ==
  ASSUME NEW s \in EsqlRec, NEW state \in {"armed", "off"}
  PROVE  LET w == WithHandler(s, state)
         IN  /\ IF HasHandler(s)
                THEN w.fdh = "none" /\ w.stray = (IF s.fdh # "none" THEN s.fdh ELSE s.stray)
                ELSE w.fdh = state /\ w.stray = "none"
             /\ w.current = s.current /\ w.connected = s.connected
             /\ w.job = s.job /\ w.rtimers = s.rtimers /\ w.m = s.m
<1>1. CASE HasHandler(s)
  BY <1>1 DEF HasHandler, WithHandler, EsqlRec
<1>2. CASE ~HasHandler(s)
  BY <1>2 DEF HasHandler, WithHandler, EsqlRec
<1> QED BY <1>1, <1>2

LEMMA DialledParts ==
  ASSUME NEW s \in EsqlRec, NEW r \in Dialled(s), Client(s)
  PROVE  /\ r.current = "init" /\ r.connected = s.connected
         /\ r.job = s.job /\ r.rtimers = s.rtimers
         /\ HasHandler(s) => r.fdh = "none" /\ r.stray = (IF s.fdh # "none" THEN s.fdh ELSE s.stray)
         /\ ~HasHandler(s) => r.fdh # "none" /\ r.stray = "none"
         /\ \/ /\ s.m.proto \in {"start", "auth"} /\ r.m.proto = "auth" /\ r.m.sock = "live"
               /\ ~HasHandler(s) => r.fdh = "armed"
            \/ s.m.proto \in {"auth", "authed"} /\ r.m.proto = "authed" /\ r.m.sock = s.m.sock
               /\ (s.m.proto = "auth" => s.m.sock = "live")
<1>1. PICK m \in ConnectWaiting(s.m) \cup ConnectDone(s.m), state \in {"armed", "off"} :
        /\ r = [WithHandler([s EXCEPT !.m = m], state) EXCEPT !.current = "init"]
        /\ \/ m \in ConnectWaiting(s.m) /\ state = "armed"
           \/ m \in ConnectDone(s.m) /\ state = "off"
  BY DEF Dialled
<1>2. s.m \in MYSAC /\ s.m.sock \in {"none", "live", "dead"}
  BY DEF EsqlRec, MYSAC, Sockets
<1>3. m \in MYSAC
  BY <1>1, <1>2, ConnectTyped
<1> DEFINE a == [s EXCEPT !.m = m]
           w == WithHandler(a, state)
<1>4. /\ a \in EsqlRec /\ a.m = m
      /\ a.current = s.current /\ a.connected = s.connected
      /\ a.job = s.job /\ a.rtimers = s.rtimers /\ a.fdh = s.fdh /\ a.stray = s.stray
  BY <1>3 DEF EsqlRec
<1>5. HasHandler(a) <=> HasHandler(s)
  BY <1>4 DEF HasHandler
<1> HIDE DEF a
<1>6. /\ IF HasHandler(s)
         THEN w.fdh = "none" /\ w.stray = (IF s.fdh # "none" THEN s.fdh ELSE s.stray)
         ELSE w.fdh = state /\ w.stray = "none"
      /\ w.current = s.current /\ w.connected = s.connected
      /\ w.job = s.job /\ w.rtimers = s.rtimers /\ w.m = m
      /\ w \in EsqlRec
  <2>1. w \in EsqlRec
    BY <1>4, WithHandlerTyped DEF Handlers
  <2> QED BY <1>4, <1>5, <2>1, HandlerMade
<1>7. r = [w EXCEPT !.current = "init"]
  BY <1>1 DEF a
<1> HIDE DEF w
<1>8. /\ r.current = "init" /\ r.connected = s.connected
      /\ r.job = s.job /\ r.rtimers = s.rtimers /\ r.m = m
      /\ r.fdh = w.fdh /\ r.stray = w.stray
  BY <1>6, <1>7 DEF EsqlRec
<1>9. CASE m \in ConnectWaiting(s.m) /\ state = "armed"
  <2>1. s.m.proto \in {"start", "auth"} /\ m \in Waiting(s.m)
    BY <1>9 DEF ConnectWaiting
  <2>2. m.proto = "auth" /\ m.sock = "live"
    BY <1>2, <2>1, ClientWaits DEF Client
  <2> QED BY <1>6, <1>8, <1>9, <2>1, <2>2
<1>10. CASE m \in ConnectDone(s.m) /\ state = "off"
  <2>1. s.m.proto \in {"auth", "authed"} /\ m \in Done(s.m)
    BY <1>10 DEF ConnectDone
  <2>2. /\ m.proto = "authed" /\ m.sock = s.m.sock
        /\ s.m.proto = "auth" => s.m.sock = "live"
    BY <1>2, <2>1, ClientDone
  <2> QED BY <1>6, <1>8, <1>10, <2>1, <2>2
<1> QED BY <1>1, <1>9, <1>10

LEMMA NotDialledParts ==
  ASSUME NEW s \in EsqlRec, NEW r \in NotDialled(s), Client(s)
  PROVE  /\ SameHandlers(s, r)
         /\ r.current = s.current /\ r.connected = s.connected
         /\ r.job = s.job /\ r.rtimers = s.rtimers
         /\ \/ r.m.proto = "failed"
            \/ r.m.proto = s.m.proto /\ r.m.sock = s.m.sock
            \/ r.m.proto = "start" /\ s.m.proto = "auth" /\ r.m.sock = "none"
         /\ s.m.sock = "none" => r.m.sock = "none"
<1>1. PICK m \in ConnectFailing(s.m) : r = [s EXCEPT !.m = m]
  BY DEF NotDialled
<1>2. s.m \in MYSAC
  BY DEF EsqlRec
<1>3. /\ r.m = m /\ SameHandlers(s, r)
      /\ r.current = s.current /\ r.connected = s.connected
      /\ r.job = s.job /\ r.rtimers = s.rtimers
  BY <1>1 DEF EsqlRec, SameHandlers
<1>4. CASE s.m.proto \in {"start", "auth", "failed"}
  <2>1. m \in Failing(s.m)
    BY <1>4 DEF ConnectFailing
  <2> QED BY <1>2, <1>3, <1>4, <2>1, ClientFails
<1>5. CASE s.m.proto \notin {"start", "auth", "failed"}
  <2>1. m = SetError(s.m)
    BY <1>5 DEF ConnectFailing
  <2>2. m.proto = s.m.proto /\ m.sock = s.m.sock
    BY <1>2, <2>1 DEF SetError, MYSAC
  <2> QED BY <1>3, <2>2
<1> QED BY <1>4, <1>5

\* A dial makes a handler or takes over the one there is, in its state.
LEMMA DialKeepsLink ==
  ASSUME NEW s \in EsqlRec, NEW r, Client(s), Single(s)
  PROVE  /\ r \in Dialled(s) => Keeps(s, r) /\ TriesOn(s, r) /\ r.current = "init"
         /\ r \in NotDialled(s) => Keeps(s, r) /\ TriesOn(s, r)
<1>1. ASSUME r \in Dialled(s) PROVE Keeps(s, r) /\ TriesOn(s, r)
  <2>1. HasHandler(r)
    BY <1>1, DialledParts DEF HasHandler
  <2>2. Armed(s) => Armed(r)
    BY <1>1, DialledParts DEF HasHandler, Armed, Single
  <2>3. Client(r)
    BY <1>1, DialledParts DEF Client
  <2>4. Kept(s) => Kept(r)
    BY <1>1, <2>1, <2>2, DialledParts DEF Kept, Armed
  <2>5. Quiet(r) /\ Left(r) /\ Noticed(r)
    BY <1>1, <2>1, DialledParts DEF Quiet, Left, Noticed, Seen
  <2>6. Free(s) => Woken(r)
    <3> SUFFICES ASSUME Free(s), r.connected, r.stray = "none" PROVE r.fdh = "armed" \/ r.job
      BY DEF Woken
    <3>1. s.connected
      BY <1>1, DialledParts
    <3>2. HasHandler(s)
      BY <3>1 DEF Free
    <3>3. r.stray # "none"
      BY <1>1, <3>2, DialledParts DEF HasHandler
    <3> QED BY <3>3
  <2>7. TriesOn(s, r)
    BY <1>1, <2>1, <2>2, DialledParts DEF TriesOn, Tries
  <2> QED BY <2>1, <2>3, <2>4, <2>5, <2>6, <2>7 DEF Keeps, Free
<1>2. ASSUME r \in NotDialled(s) PROVE Keeps(s, r) /\ TriesOn(s, r)
  <2>1. /\ HasHandler(r) <=> HasHandler(s)
        /\ Armed(r) <=> Armed(s)
    BY <1>2, NotDialledParts DEF SameHandlers, HasHandler, Armed
  <2>2. Client(r)
    BY <1>2, NotDialledParts DEF Client
  <2>3. s.m.proto \notin {"start", "auth"} => r.m.proto \notin {"start", "auth"}
    BY <1>2, NotDialledParts
  <2>4. /\ Quiet(s) => Quiet(r)
        /\ Kept(s) => Kept(r)
        /\ Left(s) => Left(r)
    BY <1>2, <2>1, <2>3, NotDialledParts DEF Quiet, Kept, Left
  <2>5. Woken(s) => Woken(r)
    BY <1>2, NotDialledParts DEF Woken, SameHandlers
  <2>6. /\ Free(s) => Free(r)
        /\ Noticed(s) => Noticed(r)
    BY <1>2, <2>1, <2>4, <2>5, NotDialledParts DEF Free, Noticed, Seen
  <2>7. TriesOn(s, r)
    BY <1>2, <2>1, NotDialledParts DEF TriesOn, Tries
  <2> QED BY <2>2, <2>4, <2>6, <2>7 DEF Keeps
<1>3. r \in Dialled(s) => r.current = "init"
  BY DialKeeps
<1> QED BY <1>1, <1>2, <1>3

LEMMA KeepsTwice ==
  ASSUME NEW s, NEW a, NEW r, Keeps(s, a), Keeps(a, r) PROVE Keeps(s, r)
  BY DEF Keeps

LEMMA SetupKeepsLink ==
  ASSUME NEW s \in EsqlRec, Client(s)
  PROVE  LET a == [s EXCEPT !.m = Setup(@)]
         IN  /\ a \in EsqlRec /\ SameHandlers(s, a)
             /\ Client(a) /\ Keeps(s, a) /\ TriesOn(s, a)
<1> DEFINE a == [s EXCEPT !.m = Setup(@)]
<1>1. s.m \in MYSAC
  BY DEF EsqlRec
<1>2. a \in EsqlRec
  BY <1>1, CommandsTyped DEF EsqlRec
<1>3. Setup(s.m).proto \in {s.m.proto, "failed"} /\ Setup(s.m).sock = s.m.sock
  BY <1>1 DEF Setup, MYSAC
<1>4. /\ SameHandlers(s, a) /\ a.m = Setup(s.m)
      /\ a.current = s.current /\ a.connected = s.connected
      /\ a.job = s.job /\ a.rtimers = s.rtimers
  BY DEF EsqlRec, SameHandlers
<1> HIDE DEF a
<1>5. /\ HasHandler(a) <=> HasHandler(s)
      /\ Armed(a) <=> Armed(s)
  BY <1>4 DEF SameHandlers, HasHandler, Armed
<1>6. Client(a)
  BY <1>3, <1>4 DEF Client
<1>7. /\ Quiet(s) => Quiet(a)
      /\ Kept(s) => Kept(a)
      /\ Left(s) => Left(a)
      /\ Woken(s) => Woken(a)
  BY <1>3, <1>4, <1>5 DEF Quiet, Kept, Left, Woken, SameHandlers
<1>8. /\ Free(s) => Free(a)
      /\ Noticed(s) => Noticed(a)
  BY <1>3, <1>4, <1>5, <1>7 DEF Free, Noticed, Seen
<1>9. TriesOn(s, a)
  BY <1>4, <1>5 DEF TriesOn, Tries
<1> QED BY <1>2, <1>4, <1>6, <1>7, <1>8, <1>9 DEF Keeps, a

\* A command given to an object that is connected and idle; a query is given
\* a job, or will be run by the chain.
LEMMA CommandKeepsLink ==
  ASSUME NEW s, NEW r, Client(s), SameHandlers(s, r),
         s.current = "none", s.connected, r.connected,
         r.current \in {"none", "database_set", "query"}, r.current = "query" => r.job,
         r.m.sock = s.m.sock, r.m.proto \in {s.m.proto, "query", "db"}
  PROVE  Keeps(s, r) /\ TriesOn(s, r)
<1>1. HasHandler(r) <=> HasHandler(s)
  BY DEF SameHandlers, HasHandler
<1>2. Client(r)
  BY DEF Client
<1>3. Kept(r) /\ Left(r) /\ Woken(r)
  BY DEF Kept, Left, Woken
<1>4. /\ Quiet(s) => Quiet(r)
      /\ Free(s) => Free(r) /\ Noticed(r)
  BY <1>1, <1>3 DEF Quiet, Free, Noticed, Seen
<1>5. TriesOn(s, r)
  BY DEF TriesOn, Tries
<1> QED BY <1>2, <1>3, <1>4, <1>5 DEF Keeps

LEMMA SwitchKeepsLink ==
  ASSUME NEW s \in EsqlRec, NEW d, Client(s)
  PROVE  LET r == DatabaseSwitched(s, d)
         IN  /\ Keeps(s, r) /\ TriesOn(s, r)
             /\ s.current = "init" => Alike(s, r)
<1>1. CASE s.current = "none" /\ s.connected
  <2> DEFINE r == [s EXCEPT !.m = SetDatabase(@, d), !.current = "database_set"]
  <2>1. /\ SameHandlers(s, r) /\ r.connected = s.connected /\ r.current = "database_set"
        /\ r.m.sock = s.m.sock /\ r.m.proto = "db"
    BY DEF EsqlRec, MYSAC, SetDatabase, SameHandlers
  <2>2. DatabaseSwitched(s, d) = r
    BY <1>1 DEF DatabaseSwitched
  <2> HIDE DEF r
  <2>3. Keeps(s, r) /\ TriesOn(s, r)
    BY <1>1, <2>1, CommandKeepsLink
  <2> QED BY <1>1, <2>2, <2>3
<1>2. CASE ~(s.current = "none" /\ s.connected)
  <2>1. PICK q : DatabaseSwitched(s, d) = [s EXCEPT !.queue = q]
    BY <1>2 DEF DatabaseSwitched, Enqueued
  <2>2. Alike(s, [s EXCEPT !.queue = q])
    BY DEF Alike, SameHandlers, EsqlRec
  <2> QED BY <2>1, <2>2, AlikeKeeps
<1> QED BY <1>1, <1>2

LEMMA ClearedAlike ==
  ASSUME TypeInv, FreesError \/ UNCHANGED esql, NEW e \in Conns
  PROVE  Alike(esql[e], esql'[e])
<1>1. esql[e] \in EsqlRec /\ esql[e].m \in MYSAC
  BY ObjectTyped DEF TypeInv
<1>2. esql'[e] \in {esql[e], [esql[e] EXCEPT !.m = ClearError(@)]}
  BY <1>1 DEF TypeInv, TypeOK, FreesError
<1>3. Alike(esql[e], esql[e])
  BY DEF Alike, SameHandlers
<1>4. Alike(esql[e], [esql[e] EXCEPT !.m = ClearError(@)])
  BY <1>1 DEF Alike, SameHandlers, ClearError, EsqlRec, MYSAC
<1> QED BY <1>2, <1>3, <1>4

----------------------------------------------------------------------------
(* The steps *)

\* The library is not told of more callbacks than it may be, and none is
\* forgotten until there was one.
Hushed ==
  /\ budget'["callback"] \in 0 .. budget["callback"]
  /\ budget'["callback"] = budget["callback"] => callbacks' \subseteq callbacks

LEMMA SpendHushes ==
  ASSUME TypeOK, NEW kind \in BudgetKinds \ {"callback"}, Spend(kind)
  PROVE  budget'["callback"] = budget["callback"] /\ budget["callback"] \in Nat
<1>1. "callback" \in BudgetKinds /\ kind # "callback"
  BY DEF BudgetKinds
<1> QED BY <1>1 DEF TypeOK, Spend

LEMMA HushedProgram == TypeOK /\ Program => Hushed
<1> SUFFICES ASSUME TypeOK, Program PROVE Hushed
  OBVIOUS
<1>1. budget["callback"] \in Nat /\ budget["callback"] \in 0 .. budget["callback"]
  BY DEF TypeOK, BudgetKinds
<1>2. /\ {"connect", "disconnect", "database", "timeout", "reconnect", "fault"}
           \subseteq BudgetKinds \ {"callback"}
      /\ "callback" \in BudgetKinds
  BY DEF BudgetKinds
<1>3. CASE Connect
  BY <1>1, <1>2, <1>3, SpendHushes DEF Connect, Hushed
<1>4. CASE Disconnect
  BY <1>1, <1>2, <1>4, SpendHushes DEF Disconnect, Hushed
<1>5. ASSUME NEW on \in BOOLEAN, TimeoutSet(on) \/ ReconnectSet(on) PROVE Hushed
  BY <1>1, <1>2, <1>5, SpendHushes DEF TimeoutSet, ReconnectSet, Hushed
<1>6. ASSUME NEW d \in DbNames, DatabaseSet(d) PROVE Hushed
  BY <1>1, <1>2, <1>6, SpendHushes DEF DatabaseSet, Hushed
<1>7. ASSUME NEW id \in Ids, QueryCallbackSet(id) PROVE Hushed
  <2>1. budget' = [budget EXCEPT !["callback"] = @ - 1]
    BY <1>7 DEF QueryCallbackSet, Spend
  <2>2. budget'["callback"] = budget["callback"] - 1
    BY <1>2, <2>1 DEF TypeOK
  <2>3. budget["callback"] > 0
    BY <1>7 DEF QueryCallbackSet, Can
  <2> QED BY <1>1, <2>2, <2>3 DEF Hushed
<1>8. ASSUME NEW t \in Conns, QueryStart(t) \/ QueryQueue(t) \/ QueryRefused(t) PROVE Hushed
  BY <1>1, <1>2, <1>8, SpendHushes DEF QueryStart, QueryQueue, QueryRefused, Issue, Hushed
<1> QED BY <1>3, <1>4, <1>5, <1>6, <1>7, <1>8 DEF Program

LEMMA HushedStep == TypeOK /\ [Next]_vars => Hushed
<1> SUFFICES ASSUME TypeOK, [Next]_vars PROVE Hushed
  OBVIOUS
<1>1. /\ budget["callback"] \in Nat /\ budget["callback"] \in 0 .. budget["callback"]
      /\ {"fault", "keep"} \subseteq BudgetKinds \ {"callback"}
  BY DEF TypeOK, BudgetKinds
<1>2. CASE UNCHANGED vars
  BY <1>1, <1>2 DEF vars, Hushed
<1>3. ASSUME NEW e \in Conns, Sources(e) PROVE Hushed
  BY <1>1, <1>3, SpendHushes
     DEF Sources, FdReady, RunJob, TimeoutFires, ReconnectFires, CloseAndRetry, Hushed
<1>4. ASSUME NEW e \in Conns, Io(e) \/ Complete(e) PROVE Hushed
  BY <1>1, <1>4, SpendHushes
     DEF Io, IoWait, IoDone, IoFail, Complete, CompleteInit, CompleteQuery, CompleteOther, Hushed
<1>5. ASSUME NEW e \in Conns, NextCall(e) PROVE Hushed
  BY <1>1, <1>5, SpendHushes DEF NextCall, NextIdle, NextDatabase, NextQuery, Hushed
<1>6. ASSUME NEW e \in Conns, Error(e) \/ CbReturns(e) PROVE Hushed
  <2>1. CASE Error(e)
    BY <1>1, <2>1 DEF Error, ErrorQuery, ErrorOther, Down, CloseAndRetry, Hushed
  <2>2. CASE CbReturns(e)
    BY <1>1, <2>2, SpendHushes
       DEF CbReturns, ConnectCbReturns, QueryCbReturns, ResultReturned, Hushed
  <2> QED BY <1>6, <2>1, <2>2
<1>7. CASE ResultEvent \/ ResultUnref
  BY <1>1, <1>7, SpendHushes DEF ResultEvent, ResultUnref, ResultReturned, Hushed
<1> QED BY <1>2, <1>3, <1>4, <1>5, <1>6, <1>7, HushedProgram DEF Next, Chain

\* While it calls nobody back it has not done so before.
LEMMA HushedBefore ==
  ASSUME TypeOK, LinkInv, Hushed
  PROVE  /\ budget'["callback"] <= Budget["callback"]
         /\ NoCallbacks' => NoCallbacks /\ callbacks' = {}
<1>1. /\ budget["callback"] \in Nat /\ Budget["callback"] \in Nat
      /\ budget["callback"] <= Budget["callback"]
      /\ budget'["callback"] \in 0 .. budget["callback"]
  BY DEF TypeOK, LinkInv, Hushed, BudgetKinds
<1>2. ASSUME NoCallbacks' PROVE NoCallbacks /\ budget'["callback"] = budget["callback"]
  BY <1>1, <1>2 DEF NoCallbacks
<1>3. ASSUME NoCallbacks' PROVE callbacks' = {}
  <2>1. callbacks = {}
    BY <1>2, <1>3 DEF LinkInv
  <2>2. callbacks' \subseteq callbacks
    BY <1>2, <1>3 DEF Hushed
  <2> QED BY <2>1, <2>2
<1> QED BY <1>1, <1>2, <1>3

\* A step of the program: the thread goes on where it was.
LEMMA ProgramLinks ==
  ASSUME TypeOK, LinkInv, Hushed, ProgramTurn, run'.at = run.at, run'.e = run.e,
         \A e \in Conns : Keeps(esql[e], esql'[e])
  PROVE  LinkInv'
<1>1. ASSUME NEW e \in Conns PROVE LinkOf(e)'
  <2>1. Client(esql'[e])
    BY DEF Keeps
  <2>2. Busy(e)' <=> Busy(e)
    BY DEF Busy
  <2>3. CASE Busy(e)
    <3>1. run.at \in {"ready", "result", "failed", "refused"}
      BY <2>3 DEF ProgramTurn, ProgramPoints, Busy
    <3>2. run.at # "refused" => Quiet(esql[e]) /\ Kept(esql[e])
      BY <2>3, <3>1 DEF LinkInv, LinkOf, Held
    <3>3. Held(run', esql'[e])
      BY <3>1, <3>2 DEF Keeps, Held
    <3>4. ~NoCallbacks /\ ~(NoCallbacks')
      BY <3>1, HushedBefore DEF LinkInv, CallbackPoints
    <3> QED BY <2>1, <2>2, <2>3, <3>3, <3>4 DEF LinkOf
  <2>4. CASE ~Busy(e)
    BY <2>1, <2>2, <2>4, HushedBefore DEF LinkInv, LinkOf, Keeps
  <2> QED BY <2>3, <2>4
<1> QED BY <1>1, HushedBefore DEF LinkInv

\* A step of the main loop or of the chain at object e: the others stay as
\* they are, but for their queues and their clients' errors.
LEMMA ChainLinks ==
  ASSUME TypeOK, LinkInv, Hushed, NEW e \in Conns,
         run.at = "loop" \/ run.e = e, run'.at = "loop" \/ run'.e = e,
         \A f \in Conns \ {e} : Alike(esql[f], esql'[f]),
         Client(esql'[e]),
         run'.at = "loop" => Free(esql'[e]) /\ (NoCallbacks' => Noticed(esql'[e])),
         run'.at # "loop" => Held(run', esql'[e]) /\ (NoCallbacks' => Noted(run', esql'[e])),
         NoCallbacks' => run'.at \notin CallbackPoints
  PROVE  LinkInv'
<1>1. LinkOf(e)'
  BY DEF LinkOf, Busy
<1>2. ASSUME NEW f \in Conns \ {e} PROVE LinkOf(f)'
  <2>1. ~Busy(f) /\ ~(Busy(f)')
    BY DEF Busy
  <2>2. /\ Client(esql[f]) /\ Free(esql[f])
        /\ NoCallbacks => Noticed(esql[f])
    BY <2>1 DEF LinkInv, LinkOf
  <2>3. Keeps(esql[f], esql'[f])
    BY <2>2, AlikeKeeps
  <2> QED BY <2>1, <2>2, <2>3, HushedBefore DEF LinkOf, Keeps
<1> QED BY <1>1, <1>2, HushedBefore DEF LinkInv

\* A step of the main loop or of the chain that changes nothing but object e.
LEMMA OneLinks ==
  ASSUME TypeOK, LinkInv, Hushed, NEW e \in Conns, NEW r, esql' = [esql EXCEPT ![e] = r],
         run.at = "loop" \/ run.e = e, run'.at = "loop" \/ run'.e = e,
         Client(r),
         run'.at = "loop" => Free(r) /\ (NoCallbacks' => Noticed(r)),
         run'.at # "loop" => Held(run', r) /\ (NoCallbacks' => Noted(run', r)),
         NoCallbacks' => run'.at \notin CallbackPoints
  PROVE  LinkInv'
<1>1. esql'[e] = r /\ \A f \in Conns \ {e} : esql'[f] = esql[f]
  BY DEF TypeOK
<1>2. \A f \in Conns \ {e} : Alike(esql[f], esql'[f])
  BY <1>1 DEF Alike, SameHandlers
<1> QED BY <1>1, <1>2, ChainLinks

\* The objects a dial of the program starts from.
LinkReady == TypeInv /\ OneHandler /\ LinkInv

LEMMA LinkObject ==
  ASSUME LinkReady, NEW e \in Conns
  PROVE  /\ esql[e] \in EsqlRec /\ esql[e].m \in MYSAC
         /\ Single(esql[e]) /\ Client(esql[e]) /\ LinkOf(e) /\ TypeOK
  BY ObjectTyped DEF LinkReady, TypeInv, OneHandler, Single, LinkInv, LinkOf

LEMMA SameKeeps == ASSUME NEW s, Client(s) PROVE Keeps(s, s) /\ TriesOn(s, s)
  BY AlikeKeeps DEF Alike, SameHandlers

LEMMA DialsKeepLink ==
  ASSUME LinkReady, Connect, NEW e \in Conns
  PROVE  Keeps(esql[e], esql'[e]) /\ TriesOn(esql[e], esql'[e])
<1> DEFINE s == esql[e]
           a == [s EXCEPT !.m = Setup(@)]
<1>1. s \in EsqlRec /\ Single(s) /\ Client(s)
  BY LinkObject
<1>2. \/ esql'[e] = s
      \/ esql'[e] \in Dialled(a) \cup NotDialled(a)
  BY DEF Connect
<1> HIDE DEF s
<1>3. /\ a \in EsqlRec /\ SameHandlers(s, a)
      /\ Client(a) /\ Keeps(s, a) /\ TriesOn(s, a)
  BY <1>1, SetupKeepsLink
<1> HIDE DEF a
<1>4. Single(a)
  BY <1>1, <1>3 DEF SameHandlers, Single
<1>5. CASE esql'[e] = s
  BY <1>1, <1>5, SameKeeps DEF s
<1>6. CASE esql'[e] \in Dialled(a) \cup NotDialled(a)
  <2>1. Keeps(a, esql'[e]) /\ TriesOn(a, esql'[e])
    BY <1>3, <1>4, <1>6, DialKeepsLink
  <2>2. Keeps(s, esql'[e]) /\ TriesOn(s, esql'[e])
    BY <1>3, <2>1, KeepsTwice DEF TriesOn
  <2> QED BY <2>2 DEF s
<1> QED BY <1>2, <1>5, <1>6

LEMMA StartKeepsLink ==
  ASSUME LinkReady, NEW t \in Conns, NEW id, esql[t].current = "none", esql[t].connected
  PROVE  LET r == Started(esql[t], id)
         IN  Keeps(esql[t], r) /\ TriesOn(esql[t], r)
<1> DEFINE s == esql[t]
           r == Started(s, id)
<1>1. s \in EsqlRec /\ s.m \in MYSAC /\ Client(s)
  BY LinkObject
<1>2. /\ SameHandlers(s, r) /\ r.connected = s.connected /\ r.current = "query" /\ r.job
      /\ r.m.sock = s.m.sock /\ r.m.proto = "query"
  BY <1>1 DEF Started, SetQuery, EsqlRec, MYSAC, SameHandlers
<1> HIDE DEF r
<1>3. Keeps(s, r) /\ TriesOn(s, r)
  BY <1>1, <1>2, CommandKeepsLink
<1> QED BY <1>3 DEF r

LEMMA RefusedKeepsLink ==
  ASSUME LinkReady, NEW t \in Conns, esql[t].current = "none", esql[t].connected,
         NEW m \in {SetQuery(esql[t].m), QueryTooLong(esql[t].m)}
  PROVE  LET r == [esql[t] EXCEPT !.m = m]
         IN  Keeps(esql[t], r) /\ TriesOn(esql[t], r)
<1> DEFINE s == esql[t]
           r == [s EXCEPT !.m = m]
<1>1. s \in EsqlRec /\ s.m \in MYSAC /\ Client(s)
  BY LinkObject
<1>2. m.sock = s.m.sock /\ m.proto \in {s.m.proto, "query"}
  BY <1>1 DEF SetQuery, QueryTooLong, SetError, MYSAC
<1>3. /\ SameHandlers(s, r) /\ r.connected = s.connected /\ r.current = s.current
      /\ r.m = m
  BY <1>1 DEF EsqlRec, SameHandlers
<1> HIDE DEF r
<1>4. Keeps(s, r) /\ TriesOn(s, r)
  BY <1>1, <1>2, <1>3, CommandKeepsLink
<1> QED BY <1>4 DEF r

\* What the program does to an object, but for its own disconnect.
LEMMA CallKeepsLink ==
  ASSUME LinkReady, Program, ~Disconnect, NEW e \in Conns
  PROVE  Keeps(esql[e], esql'[e]) /\ TriesOn(esql[e], esql'[e])
<1>1. /\ esql[e] \in EsqlRec /\ Client(esql[e]) /\ esql \in [Conns -> EsqlRec]
      /\ Keeps(esql[e], esql[e]) /\ TriesOn(esql[e], esql[e])
  BY LinkObject, SameKeeps DEF TypeOK
<1>2. ASSUME NEW r, Alike(esql[e], r), esql'[e] = r
      PROVE  Keeps(esql[e], esql'[e]) /\ TriesOn(esql[e], esql'[e])
  BY <1>1, <1>2, AlikeKeeps
<1>3. ASSUME NEW on \in BOOLEAN, TimeoutSet(on)
      PROVE  Keeps(esql[e], esql'[e]) /\ TriesOn(esql[e], esql'[e])
  <2>1. Alike(esql[e], [esql[e] EXCEPT !.timeout = on])
    BY <1>1 DEF Alike, SameHandlers, EsqlRec
  <2> QED BY <1>2, <1>3, <2>1 DEF TimeoutSet
<1>4. ASSUME NEW d \in DbNames, DatabaseSet(d)
      PROVE  Keeps(esql[e], esql'[e]) /\ TriesOn(esql[e], esql'[e])
  BY <1>1, <1>4, SwitchKeepsLink DEF DatabaseSet
<1>5. ASSUME NEW t \in Conns, QueryStart(t) \/ QueryQueue(t) \/ QueryRefused(t)
      PROVE  Keeps(esql[e], esql'[e]) /\ TriesOn(esql[e], esql'[e])
  <2>1. esql'[e] = esql[e] \/ t = e
    BY <1>1, <1>5 DEF QueryStart, QueryQueue, QueryRefused, Issue
  <2>2. CASE t = e /\ QueryStart(t)
    BY <1>1, <2>2, StartKeepsLink DEF QueryStart, Issue, Queryable
  <2>3. CASE t = e /\ QueryQueue(t)
    <3>1. PICK q : esql'[e] = [esql[e] EXCEPT !.queue = q]
      BY <1>1, <2>3 DEF QueryQueue, Issue, Enqueued
    <3>2. Alike(esql[e], [esql[e] EXCEPT !.queue = q])
      BY <1>1 DEF Alike, SameHandlers, EsqlRec
    <3> QED BY <1>2, <3>1, <3>2
  <2>4. CASE t = e /\ QueryRefused(t)
    <3>1. PICK m \in {SetQuery(esql[e].m), QueryTooLong(esql[e].m)} :
            esql'[e] = [esql[e] EXCEPT !.m = m]
      BY <1>1, <2>4 DEF QueryRefused
    <3>2. esql[e].current = "none" /\ esql[e].connected
      BY <2>4 DEF QueryRefused, Queryable
    <3>3. /\ Keeps(esql[e], [esql[e] EXCEPT !.m = m])
          /\ TriesOn(esql[e], [esql[e] EXCEPT !.m = m])
      BY <3>1, <3>2, RefusedKeepsLink, Zenon
    <3> QED BY <3>1, <3>3, Zenon
  <2> QED BY <1>1, <1>5, <2>1, <2>2, <2>3, <2>4
<1>6. CASE Connect
  BY <1>6, DialsKeepLink
<1>7. ASSUME (\E on \in BOOLEAN : ReconnectSet(on)) \/ (\E id \in Ids : QueryCallbackSet(id))
      PROVE  Keeps(esql[e], esql'[e]) /\ TriesOn(esql[e], esql'[e])
  BY <1>1, <1>7 DEF ReconnectSet, QueryCallbackSet
<1> QED BY <1>3, <1>4, <1>5, <1>6, <1>7 DEF Program

LEMMA LinkProgram == LinkReady /\ Program => LinkInv'
<1> SUFFICES ASSUME LinkReady, Program PROVE LinkInv'
  OBVIOUS
<1>1. TypeOK /\ LinkInv /\ Hushed
  BY HushedProgram DEF LinkReady, TypeInv
<1>2. ProgramTurn /\ run'.at = run.at /\ run'.e = run.e
  <2>1. ProgramTurn
    BY DEF Program, Connect, Disconnect, TimeoutSet, ReconnectSet, DatabaseSet, QueryCallbackSet,
           QueryStart, QueryQueue, QueryRefused, Queryable
  <2>2. CASE Disconnect
    <3>1. run' = [run EXCEPT !.hup = run'.hup]
      BY <1>1, <2>2 DEF Disconnect, TypeOK
    <3> QED BY <1>1, <2>1, <3>1 DEF TypeOK
  <2>3. CASE ~Disconnect
    BY <2>1, <2>3
       DEF Program, Connect, TimeoutSet, ReconnectSet, DatabaseSet, QueryCallbackSet,
           QueryStart, QueryQueue, QueryRefused, Issue
  <2> QED BY <2>1, <2>2, <2>3
<1>3. ASSUME NEW e \in Conns PROVE Keeps(esql[e], esql'[e])
  <2>1. CASE Disconnect
    <3>1. esql'[e] = esql[e] \/ esql'[e] = Closed(esql[e])
      BY <2>1 DEF Disconnect
    <3> QED BY <3>1, LinkObject, ClosedKeeps, SameKeeps
  <2> QED BY <2>1, CallKeepsLink
<1> QED BY <1>1, <1>2, <1>3, ProgramLinks

\* Setting a handler's state.
LEMMA ActiveParts ==
  ASSUME NEW s \in EsqlRec, NEW h \in {"fdh", "stray"}, NEW state \in {"off", "armed"}
  PROVE  LET r == Active(s, h, state)
         IN  /\ r.fdh = (IF h = "fdh" /\ s.fdh # "none" THEN state ELSE s.fdh)
             /\ r.stray = (IF h = "stray" /\ s.stray # "none" THEN state ELSE s.stray)
             /\ r.current = s.current /\ r.connected = s.connected
             /\ r.job = s.job /\ r.rtimers = s.rtimers /\ r.m = s.m
             /\ HasHandler(r) <=> HasHandler(s)
<1> DEFINE r == Active(s, h, state)
<1>1. CASE h = "fdh"
  <2>1. /\ r.fdh = (IF s.fdh # "none" THEN state ELSE s.fdh) /\ r.stray = s.stray
        /\ r.current = s.current /\ r.connected = s.connected
        /\ r.job = s.job /\ r.rtimers = s.rtimers /\ r.m = s.m
    BY <1>1 DEF Active, EsqlRec
  <2> HIDE DEF r
  <2>2. HasHandler(r) <=> HasHandler(s)
    BY <2>1 DEF HasHandler
  <2> QED BY <1>1, <2>1, <2>2 DEF r
<1>2. CASE h = "stray"
  <2>1. /\ r.stray = (IF s.stray # "none" THEN state ELSE s.stray) /\ r.fdh = s.fdh
        /\ r.current = s.current /\ r.connected = s.connected
        /\ r.job = s.job /\ r.rtimers = s.rtimers /\ r.m = s.m
    BY <1>2 DEF Active, EsqlRec
  <2> HIDE DEF r
  <2>2. HasHandler(r) <=> HasHandler(s)
    BY <2>1 DEF HasHandler
  <2> QED BY <1>2, <2>1, <2>2 DEF r
<1> QED BY <1>1, <1>2

\* The main loop is idle: every object is free.
LEMMA LoopFree ==
  ASSUME LinkReady, LoopTurn, NEW e \in Conns
  PROVE  Free(esql[e]) /\ (NoCallbacks => Noticed(esql[e]))
  BY DEF LinkReady, LinkInv, LinkOf, Busy, LoopTurn

LEMMA LinkFdReady == \A e \in Conns : LinkReady /\ Hushed /\ FdReady(e) => LinkInv'
<1> SUFFICES ASSUME NEW e \in Conns, LinkReady, Hushed, FdReady(e) PROVE LinkInv'
  OBVIOUS
<1> DEFINE s == esql[e]
<1>1. PICK h \in {"fdh", "stray"}, hup \in BOOLEAN :
        /\ LoopTurn /\ HandlerOf(s, h) # "none"
        /\ esql' = [esql EXCEPT ![e] = Active(s, h, "off")]
        /\ run' = [at |-> "io", e |-> e, hup |-> hup, h |-> h]
  BY DEF FdReady
<1> DEFINE r == Active(s, h, "off")
<1>2. /\ s \in EsqlRec /\ Client(s) /\ Free(s)
      /\ NoCallbacks' => Noticed(s)
  BY <1>1, LinkObject, LoopFree, HushedBefore DEF LinkReady
<1>3. /\ r.fdh = (IF h = "fdh" /\ s.fdh # "none" THEN "off" ELSE s.fdh)
      /\ r.stray = (IF h = "stray" /\ s.stray # "none" THEN "off" ELSE s.stray)
      /\ r.current = s.current /\ r.connected = s.connected /\ r.m = s.m
      /\ HasHandler(r) <=> HasHandler(s)
  BY <1>2, ActiveParts
<1>4. HasHandler(s)
  BY <1>1 DEF HandlerOf, HasHandler
<1>5. esql' = [esql EXCEPT ![e] = r]
  BY <1>1
<1> HIDE DEF s, r
<1>6. Client(r)
  BY <1>2, <1>3 DEF Client
<1>7. Held(run', r)
  <2>1. Left(r)
    BY <1>2, <1>3, <1>4 DEF Free, Left
  <2>2. h = "stray" => r.stray # "none"
    BY <1>1, <1>3 DEF HandlerOf
  <2>3. h = "fdh" => r.fdh # "none"
    BY <1>1, <1>3 DEF HandlerOf
  <2> QED BY <1>1, <1>3, <1>4, <2>1, <2>2, <2>3 DEF Held
<1>8. NoCallbacks' => Noted(run', r)
  BY <1>1, <1>2, <1>3, <1>4 DEF Noticed, Noted, Seen
<1>9. /\ run.at = "loop" /\ run'.e = e /\ run'.at = "io"
      /\ TypeOK /\ LinkInv
  BY <1>1 DEF LoopTurn, LinkReady, TypeInv
<1> QED BY <1>5, <1>6, <1>7, <1>8, <1>9, OneLinks DEF CallbackPoints

LEMMA LinkRunJob == \A e \in Conns : LinkReady /\ Hushed /\ RunJob(e) => LinkInv'
<1> SUFFICES ASSUME NEW e \in Conns, LinkReady, Hushed, RunJob(e) PROVE LinkInv'
  OBVIOUS
<1> DEFINE s == esql[e]
           a == [s EXCEPT !.job = FALSE]
           r == Active(a, "fdh", "off")
<1>1. /\ LoopTurn /\ s.job
      /\ esql' = [esql EXCEPT ![e] = r]
      /\ run' = [at |-> "io", e |-> e, hup |-> FALSE, h |-> "fdh"]
  BY DEF RunJob
<1>2. /\ s \in EsqlRec /\ Client(s) /\ Free(s)
      /\ NoCallbacks' => Noticed(s)
  BY <1>1, LinkObject, LoopFree, HushedBefore DEF LinkReady
<1>3. /\ a \in EsqlRec /\ a.job = FALSE /\ a.fdh = s.fdh /\ a.stray = s.stray
      /\ a.current = s.current /\ a.connected = s.connected /\ a.m = s.m
  BY <1>2 DEF EsqlRec
<1> HIDE DEF a
<1>4. HasHandler(a) <=> HasHandler(s)
  BY <1>3 DEF HasHandler
<1>5. /\ r.fdh = (IF s.fdh # "none" THEN "off" ELSE s.fdh)
      /\ r.stray = s.stray /\ r.job = FALSE
      /\ r.current = s.current /\ r.connected = s.connected /\ r.m = s.m
      /\ HasHandler(r) <=> HasHandler(s)
  BY <1>3, <1>4, ActiveParts
<1> HIDE DEF s, r
<1>6. Client(r)
  BY <1>2, <1>5 DEF Client
<1>7. Held(run', r)
  <2>1. Left(r)
    BY <1>2, <1>5 DEF Free, Left
  <2>2. r.fdh = "none" => Kept(r)
    BY <1>2, <1>5 DEF Free, Kept, Armed
  <2>3. ~HasHandler(r) => ~r.connected /\ (r.current = "init" => r.m.sock = "none" /\ ~r.job)
    BY <1>1, <1>2, <1>5 DEF Free
  <2> QED BY <1>1, <2>1, <2>2, <2>3 DEF Held
<1>8. NoCallbacks' => Noted(run', r)
  BY <1>1, <1>2, <1>5 DEF Noticed, Noted, Seen
<1>9. /\ run.at = "loop" /\ run'.e = e /\ run'.at = "io"
      /\ TypeOK /\ LinkInv
  BY <1>1 DEF LoopTurn, LinkReady, TypeInv
<1> QED BY <1>1, <1>6, <1>7, <1>8, <1>9, OneLinks DEF CallbackPoints

LEMMA LinkCloseAndRetry ==
  ASSUME LinkReady, Hushed, NEW e \in Conns, NEW s \in EsqlRec, CloseAndRetry(e, s),
         run.at = "loop" \/ run.e = e, run'.at = "loop"
  PROVE  LinkInv'
<1>1. PICK n : esql' = [esql EXCEPT ![e] = [Closed(s) EXCEPT !.rtimers = n]]
  BY DEF CloseAndRetry
<1> DEFINE r == [Closed(s) EXCEPT !.rtimers = n]
<1>2. Client(r) /\ Free(r) /\ Noticed(r)
  BY ClosedKeeps
<1>3. TypeOK /\ LinkInv /\ run'.at \notin CallbackPoints
  BY DEF LinkReady, TypeInv, CallbackPoints
<1> HIDE DEF r
<1>4. esql' = [esql EXCEPT ![e] = r]
  BY <1>1 DEF r
<1> QED BY <1>2, <1>3, <1>4, OneLinks

LEMMA LinkTimeoutFires == \A e \in Conns : LinkReady /\ Hushed /\ TimeoutFires(e) => LinkInv'
<1> SUFFICES ASSUME NEW e \in Conns, LinkReady, Hushed, TimeoutFires(e) PROVE LinkInv'
  OBVIOUS
<1>1. [esql[e] EXCEPT !.timeout = FALSE] \in EsqlRec
  BY LinkObject DEF EsqlRec
<1> QED BY <1>1, LinkCloseAndRetry DEF TimeoutFires, LoopTurn

LEMMA LinkReconnectFires == \A e \in Conns : LinkReady /\ Hushed /\ ReconnectFires(e) => LinkInv'
<1> SUFFICES ASSUME NEW e \in Conns, LinkReady, Hushed, ReconnectFires(e) PROVE LinkInv'
  OBVIOUS
<1> DEFINE s == esql[e]
           a == [s EXCEPT !.rtimers = @ - 1]
<1>1. LoopTurn /\ run' = run
  BY DEF ReconnectFires
<1>2. /\ s \in EsqlRec /\ Client(s) /\ Single(s) /\ Free(s) /\ s.rtimers > 0
      /\ NoCallbacks' => Noticed(s)
  BY <1>1, LinkObject, LoopFree, HushedBefore DEF LinkReady, ReconnectFires
<1>3. /\ a \in EsqlRec /\ a.fdh = s.fdh /\ a.stray = s.stray /\ a.job = s.job
      /\ a.current = s.current /\ a.connected = s.connected /\ a.m = s.m
  <2>1. s.rtimers - 1 \in Nat
    BY <1>2 DEF EsqlRec
  <2> QED BY <1>2, <2>1 DEF EsqlRec
<1>4. \/ \E r \in Dialled(a) :
             esql' = [esql EXCEPT ![e] = IF database = NoDb THEN r ELSE DatabaseSwitched(r, database)]
      \/ \E r \in NotDialled(a) : esql' = [esql EXCEPT ![e] = r]
  BY DEF ReconnectFires
<1> HIDE DEF a
<1>5. /\ HasHandler(a) <=> HasHandler(s)
      /\ Armed(a) <=> Armed(s)
  BY <1>3 DEF HasHandler, Armed
<1>6. Client(a) /\ Single(a) /\ Free(a) /\ (Noticed(s) => Noticed(a))
  BY <1>2, <1>3, <1>5 DEF Client, Single, Free, Woken, Kept, Left, Noticed, Seen
<1>7. ASSUME NEW w, Keeps(a, w), esql' = [esql EXCEPT ![e] = w] PROVE LinkInv'
  <2>1. Client(w) /\ Free(w) /\ (NoCallbacks' => Noticed(w))
    BY <1>2, <1>6, <1>7 DEF Keeps
  <2>2. TypeOK /\ LinkInv /\ run.at = "loop" /\ run'.at = "loop"
    BY <1>1 DEF LinkReady, TypeInv, LoopTurn
  <2> QED BY <1>7, <2>1, <2>2, OneLinks DEF CallbackPoints
<1>8. CASE \E r \in NotDialled(a) : esql' = [esql EXCEPT ![e] = r]
  BY <1>3, <1>6, <1>7, <1>8, DialKeepsLink
<1>9. ASSUME NEW r \in Dialled(a),
             esql' = [esql EXCEPT ![e] = IF database = NoDb THEN r ELSE DatabaseSwitched(r, database)]
      PROVE  LinkInv'
  <2>1. r \in EsqlRec /\ Keeps(a, r) /\ Client(r)
    BY <1>3, <1>6, DialTyped, DialKeepsLink DEF Keeps
  <2>2. Keeps(r, DatabaseSwitched(r, database))
    BY <2>1, SwitchKeepsLink
  <2>3. Keeps(a, DatabaseSwitched(r, database))
    BY <2>1, <2>2, KeepsTwice
  <2>4. PICK w : Keeps(a, w) /\ esql' = [esql EXCEPT ![e] = w]
    BY <1>9, <2>1, <2>3
  <2> QED BY <1>7, <2>4
<1> QED BY <1>4, <1>8, <1>9

\* Freeing a result forgets an error, whoever's.
LEMMA LinkErrorCleared ==
  ASSUME LinkReady, Hushed, FreesError \/ UNCHANGED esql, ProgramTurn, run' = run
  PROVE  LinkInv'
<1>1. TypeInv /\ TypeOK /\ LinkInv
  BY DEF LinkReady, TypeInv
<1>2. ASSUME NEW e \in Conns PROVE Keeps(esql[e], esql'[e])
  <2>1. Alike(esql[e], esql'[e])
    BY <1>1, ClearedAlike
  <2> QED BY <2>1, LinkObject, AlikeKeeps
<1> QED BY <1>1, <1>2, ProgramLinks

\* The object the chain goes through.
LEMMA ChainHeld ==
  ASSUME LinkReady, Hushed, NEW e \in Conns, run.e = e, run.at # "loop"
  PROVE  /\ Held(run, esql[e]) /\ (NoCallbacks' => Noted(run, esql[e]))
         /\ NoCallbacks' => callbacks = {} /\ ~HasConnectCb /\ run.at \notin CallbackPoints
         /\ esql[e] \in EsqlRec /\ esql[e].m \in MYSAC /\ Client(esql[e])
         /\ TypeOK /\ LinkInv
<1>1. TypeOK /\ LinkInv /\ (NoCallbacks' => NoCallbacks)
  BY HushedBefore DEF LinkReady, TypeInv
<1>2. LinkOf(e) /\ Busy(e)
  BY <1>1 DEF LinkInv, Busy
<1>3. Held(run, esql[e]) /\ (NoCallbacks' => Noted(run, esql[e]))
  BY <1>1, <1>2 DEF LinkOf
<1>4. NoCallbacks' => callbacks = {} /\ ~HasConnectCb /\ run.at \notin CallbackPoints
  BY <1>1 DEF LinkInv, NoCallbacks
<1> QED BY <1>1, <1>3, <1>4, LinkObject

LEMMA LinkIoWait == \A e \in Conns : LinkReady /\ Hushed /\ IoWait(e) => LinkInv'
<1> SUFFICES ASSUME NEW e \in Conns, LinkReady, Hushed, IoWait(e) PROVE LinkInv'
  OBVIOUS
<1> DEFINE s == esql[e]
<1>1. run.at = "io" /\ run.e = e /\ run'.at = "loop"
  BY DEF IoWait, At, Idle
<1>2. /\ s \in EsqlRec /\ s.m \in MYSAC /\ Client(s) /\ TypeOK /\ LinkInv
      /\ Held(run, s)
      /\ NoCallbacks' => Noted(run, s)
  BY <1>1, ChainHeld
<1>3. PICK m \in Waiting(s.m) : esql' = [esql EXCEPT ![e] = Active([s EXCEPT !.m = m], run.h, "armed")]
  BY DEF IoWait
<1>4. m \in MYSAC /\ run.h \in {"fdh", "stray"}
  BY <1>2, <1>3, IoTyped DEF TypeOK
<1> DEFINE a == [s EXCEPT !.m = m]
           r == Active(a, run.h, "armed")
<1>5. /\ a \in EsqlRec /\ a.fdh = s.fdh /\ a.stray = s.stray /\ a.job = s.job
      /\ a.current = s.current /\ a.connected = s.connected /\ a.m = m
  BY <1>2, <1>4 DEF EsqlRec
<1>6. esql' = [esql EXCEPT ![e] = r]
  BY <1>3
<1> HIDE DEF a
<1>7. HasHandler(a) <=> HasHandler(s)
  BY <1>5 DEF HasHandler
<1>8. /\ r.fdh = (IF run.h = "fdh" /\ s.fdh # "none" THEN "armed" ELSE s.fdh)
      /\ r.stray = (IF run.h = "stray" /\ s.stray # "none" THEN "armed" ELSE s.stray)
      /\ r.current = s.current /\ r.connected = s.connected /\ r.job = s.job /\ r.m = m
      /\ HasHandler(r) <=> HasHandler(s)
  BY <1>4, <1>5, <1>7, ActiveParts
<1> HIDE DEF r, s
<1>9. \/ s.m.proto = "start" /\ m.proto = "auth" /\ m.sock = "live"
      \/ /\ s.m.proto \in {"auth", "db", "query", "queryDone"} /\ m.proto = s.m.proto
         /\ m.sock = s.m.sock
  BY <1>2, <1>3, ClientWaits
<1>10. Client(r)
  BY <1>2, <1>8, <1>9 DEF Client
<1>11. ~HasHandler(r) => ~r.connected /\ (r.current = "init" => ~r.job)
  BY <1>1, <1>2, <1>8 DEF Held
<1>12. Woken(r)
  <2> SUFFICES ASSUME r.connected, r.stray = "none" PROVE r.fdh = "armed"
    BY DEF Woken
  <2>1. s.stray = "none" /\ run.h # "stray"
    BY <1>1, <1>2, <1>8 DEF Held
  <2>2. s.fdh # "none"
    BY <1>8, <1>11, <2>1 DEF HasHandler
  <2> QED BY <1>4, <1>8, <2>1, <2>2
<1>13. Kept(r)
  <2> SUFFICES ASSUME ~r.connected, HasHandler(r), r.m.proto \in {"start", "auth"} PROVE Armed(r)
    BY DEF Kept
  <2>1. CASE run.h = "stray"
    BY <1>1, <1>2, <1>8, <2>1 DEF Held, Armed
  <2>2. CASE run.h = "fdh" /\ s.fdh # "none"
    BY <1>8, <2>2 DEF Armed
  <2>3. CASE run.h = "fdh" /\ s.fdh = "none"
    <3>1. Kept(s) /\ s.m.proto \in {"start", "auth"}
      BY <1>1, <1>2, <1>8, <1>9, <2>3 DEF Held
    <3>2. Armed(s)
      BY <1>8, <3>1 DEF Kept
    <3> QED BY <1>8, <2>3, <3>2 DEF Armed
  <2> QED BY <1>4, <2>1, <2>2, <2>3
<1>14. Left(r)
  BY <1>1, <1>2, <1>8, <1>9 DEF Held, Left
<1>15. Free(r)
  BY <1>11, <1>12, <1>13, <1>14 DEF Free
<1>16. NoCallbacks' => Noticed(r)
  BY <1>2, <1>8, <1>9 DEF Noted, Noticed, Seen
<1> QED BY <1>1, <1>2, <1>6, <1>10, <1>15, <1>16, OneLinks DEF CallbackPoints

LEMMA LinkIoDone == \A e \in Conns : LinkReady /\ Hushed /\ IoDone(e) => LinkInv'
<1> SUFFICES ASSUME NEW e \in Conns, LinkReady, Hushed, IoDone(e) PROVE LinkInv'
  OBVIOUS
<1> DEFINE s == esql[e]
<1>1. run.at = "io" /\ run.e = e /\ run' = [run EXCEPT !.at = "complete"]
  BY DEF IoDone, At, Goto
<1>2. /\ s \in EsqlRec /\ s.m \in MYSAC /\ Client(s) /\ TypeOK /\ LinkInv
      /\ Held(run, s)
      /\ NoCallbacks' => Noted(run, s)
  BY <1>1, ChainHeld
<1>3. PICK m \in Done(s.m) : esql' = [esql EXCEPT ![e] = [s EXCEPT !.m = m]]
  BY <1>2 DEF IoDone, TypeOK
<1> DEFINE r == [s EXCEPT !.m = m]
<1>4. /\ r.fdh = s.fdh /\ r.stray = s.stray /\ r.job = s.job
      /\ r.current = s.current /\ r.connected = s.connected /\ r.m = m
  BY <1>2 DEF EsqlRec
<1>5. esql' = [esql EXCEPT ![e] = r]
  BY <1>3
<1> HIDE DEF r, s
<1>6. HasHandler(r) <=> HasHandler(s)
  BY <1>4 DEF HasHandler
<1>7. /\ m.sock = s.m.sock
      /\ \/ /\ s.m.sock = "live"
            /\ <<s.m.proto, m.proto>> \in
                 {<<"auth", "authed">>, <<"db", "dbDone">>, <<"query", "queryDone">>}
         \/ s.m.proto \in {"authed", "dbDone", "queryDone"} /\ m.proto = s.m.proto
  BY <1>2, <1>3, ClientDone
<1>8. /\ m.proto \in {"authed", "dbDone", "queryDone"} /\ s.m.sock # "none"
      /\ s.current = "init" => m.proto = "authed"
  BY <1>2, <1>7 DEF Client
<1>9. Client(r)
  BY <1>4, <1>7, <1>8 DEF Client
<1>10. HasHandler(r) \/ (~r.connected /\ r.current # "init")
  BY <1>1, <1>2, <1>4, <1>6, <1>8 DEF Held
<1>11. run'.at = "complete" /\ run'.e = e
  BY <1>1, <1>2 DEF TypeOK
<1>12. Held(run', r)
  BY <1>4, <1>8, <1>10, <1>11 DEF Held, Quiet, Kept
<1>13. NoCallbacks' => Noted(run', r)
  BY <1>2, <1>4, <1>6, <1>8, <1>11 DEF Noted, Seen
<1> QED BY <1>1, <1>2, <1>5, <1>9, <1>11, <1>12, <1>13, OneLinks DEF CallbackPoints

LEMMA LinkIoFail == \A e \in Conns : LinkReady /\ Hushed /\ IoFail(e) => LinkInv'
<1> SUFFICES ASSUME NEW e \in Conns, LinkReady, Hushed, IoFail(e) PROVE LinkInv'
  OBVIOUS
<1> DEFINE s == esql[e]
<1>1. run.at = "io" /\ run.e = e /\ run' = [run EXCEPT !.at = "error"]
  BY DEF IoFail, At, Goto
<1>2. /\ s \in EsqlRec /\ s.m \in MYSAC /\ Client(s) /\ TypeOK /\ LinkInv
      /\ Held(run, s)
      /\ NoCallbacks' => Noted(run, s)
  BY <1>1, ChainHeld
<1>3. PICK m \in Failing(s.m) : esql' = [esql EXCEPT ![e] = [s EXCEPT !.m = m]]
  BY <1>2 DEF IoFail, TypeOK
<1> DEFINE r == [s EXCEPT !.m = m]
<1>4. /\ r.fdh = s.fdh /\ r.stray = s.stray /\ r.job = s.job
      /\ r.current = s.current /\ r.connected = s.connected /\ r.m = m
  BY <1>2 DEF EsqlRec
<1>5. esql' = [esql EXCEPT ![e] = r]
  BY <1>3
<1> HIDE DEF r, s
<1>6. HasHandler(r) <=> HasHandler(s)
  BY <1>4 DEF HasHandler
<1>7. /\ \/ m.proto = "failed"
         \/ m.proto = "start" /\ s.m.proto \in {"start", "auth"}
      /\ s.m.sock = "none" => m.sock = "none"
  BY <1>2, <1>3, ClientFails DEF Client
<1>8. Client(r)
  BY <1>4, <1>7 DEF Client
<1>9. Quiet(r)
  BY <1>1, <1>2, <1>4, <1>6, <1>7 DEF Held, Quiet
<1>10. r.current = "query" => Kept(r)
  BY <1>1, <1>2, <1>4, <1>6, <1>7 DEF Held, Left, Kept
<1>11. run'.at = "error" /\ run'.e = e
  BY <1>1, <1>2 DEF TypeOK
<1>12. Held(run', r)
  BY <1>9, <1>10, <1>11 DEF Held
<1>13. NoCallbacks' => Noted(run', r)
  BY <1>2, <1>4, <1>6, <1>7, <1>11 DEF Noted, Seen
<1> QED BY <1>1, <1>2, <1>5, <1>8, <1>11, <1>12, <1>13, OneLinks DEF CallbackPoints

LEMMA LinkCompleteInit == \A e \in Conns : LinkReady /\ Hushed /\ CompleteInit(e) => LinkInv'
<1> SUFFICES ASSUME NEW e \in Conns, LinkReady, Hushed, CompleteInit(e) PROVE LinkInv'
  OBVIOUS
<1> DEFINE s == esql[e]
           r == [s EXCEPT !.connected = TRUE]
<1>1. /\ run.at = "complete" /\ run.e = e
      /\ \/ run' = [run EXCEPT !.at = "next"]
         \/ run' = [run EXCEPT !.at = "ready"] /\ HasConnectCb
  BY DEF CompleteInit, At, Goto
<1>2. /\ s \in EsqlRec /\ Client(s) /\ TypeOK /\ LinkInv
      /\ Held(run, s) /\ s.current = "init"
      /\ NoCallbacks' => Noted(run, s) /\ ~HasConnectCb
  BY <1>1, ChainHeld DEF CompleteInit
<1>3. esql' = [esql EXCEPT ![e] = r]
  BY <1>2 DEF CompleteInit, TypeOK
<1>4. /\ r.fdh = s.fdh /\ r.stray = s.stray
      /\ r.current = s.current /\ r.connected = TRUE /\ r.m = s.m
  BY <1>2 DEF EsqlRec
<1> HIDE DEF r, s
<1>5. HasHandler(r) /\ Client(r)
  BY <1>1, <1>2, <1>4 DEF Held, HasHandler, Client
<1>6. /\ run'.at \in {"next", "ready"} /\ run'.e = e
      /\ NoCallbacks' => run'.at = "next"
  BY <1>1, <1>2 DEF TypeOK
<1>7. Held(run', r)
  BY <1>4, <1>5, <1>6 DEF Held, Quiet, Kept
<1>8. NoCallbacks' => Noted(run', r)
  BY <1>4, <1>5 DEF Noted, Seen
<1> QED BY <1>1, <1>2, <1>3, <1>5, <1>6, <1>7, <1>8, OneLinks DEF CallbackPoints

\* The chain goes on, with the object as it is.
LEMMA LinkMovesOn ==
  ASSUME LinkReady, Hushed, NEW e \in Conns, run.e = e, run'.e = e,
         run.at # "loop", run'.at # "loop",
         \A f \in Conns : Alike(esql[f], esql'[f]),
         Held(run', esql[e]), NoCallbacks' => Noted(run', esql[e]) /\ run'.at \notin CallbackPoints
  PROVE  LinkInv'
<1> DEFINE s == esql[e]
           r == esql'[e]
<1>1. TypeOK /\ LinkInv /\ Client(s)
  BY ChainHeld
<1>2. Client(r)
  BY <1>1, AlikeKeeps DEF Keeps
<1>3. /\ r.fdh = s.fdh /\ r.stray = s.stray /\ r.current = s.current /\ r.connected = s.connected
      /\ r.job = s.job /\ r.m.proto = s.m.proto /\ r.m.sock = s.m.sock
  BY DEF Alike, SameHandlers
<1>4. Held(run', s) /\ (NoCallbacks' => Noted(run', s))
  OBVIOUS
<1> HIDE DEF r, s
<1>5. (HasHandler(r) <=> HasHandler(s)) /\ (Armed(r) <=> Armed(s))
  BY <1>3 DEF HasHandler, Armed
<1>6. Held(run', r)
  BY <1>3, <1>4, <1>5 DEF Held, Quiet, Kept, Left
<1>7. NoCallbacks' => Noted(run', r)
  BY <1>3, <1>4, <1>5 DEF Noted, Seen
<1> QED BY <1>1, <1>2, <1>6, <1>7, ChainLinks DEF r

LEMMA LinkComplete ==
  \A e \in Conns : LinkReady /\ Hushed /\ (CompleteQuery(e) \/ CompleteOther(e)) => LinkInv'
<1> SUFFICES ASSUME NEW e \in Conns, LinkReady, Hushed, CompleteQuery(e) \/ CompleteOther(e)
             PROVE  LinkInv'
  OBVIOUS
<1> DEFINE s == esql[e]
<1>1. /\ run.at = "complete" /\ run.e = e /\ esql' = esql /\ s.current # "init"
      /\ \/ run' = [run EXCEPT !.at = "next"]
         \/ run' = [run EXCEPT !.at = "result"] /\ callbacks # {}
  BY DEF CompleteQuery, CompleteOther, At, Goto
<1>2. /\ Held(run, s) /\ TypeOK
      /\ NoCallbacks' => Noted(run, s) /\ callbacks = {}
  BY <1>1, ChainHeld
<1>3. /\ run'.at \in {"next", "result"} /\ run'.e = e
      /\ NoCallbacks' => run'.at = "next"
  BY <1>1, <1>2 DEF TypeOK
<1>4. Held(run', s)
  BY <1>1, <1>2, <1>3 DEF Held
<1>5. NoCallbacks' => Noted(run', s)
  BY <1>1, <1>2, <1>3 DEF Noted, Seen
<1>6. \A f \in Conns : Alike(esql[f], esql'[f])
  BY <1>1 DEF Alike, SameHandlers
<1> QED BY <1>1, <1>3, <1>4, <1>5, <1>6, LinkMovesOn DEF CallbackPoints

\* Rebalancing moves a query, and nothing the invariant sees.
LEMMA RebalancedAlike ==
  ASSUME TypeOK, NEW e \in Conns, NEW f \in Conns
  PROVE  Alike(esql[f], Rebalanced(e)[f])
  BY RebalancedParts, RebalancedTyped DEF Alike, SameHandlers

LEMMA LinkNextIdle == \A e \in Conns : LinkReady /\ Hushed /\ NextIdle(e) => LinkInv'
<1> SUFFICES ASSUME NEW e \in Conns, LinkReady, Hushed, NextIdle(e) PROVE LinkInv'
  OBVIOUS
<1> DEFINE s == esql[e]
           r == Finished(s)
<1>1. /\ run.at = "next" /\ run.e = e /\ run'.at = "loop"
      /\ esql' = [esql EXCEPT ![e] = r]
  BY DEF NextIdle, At, Idle
<1>2. /\ s \in EsqlRec /\ Client(s) /\ TypeOK /\ LinkInv
      /\ Held(run, s)
      /\ NoCallbacks' => Noted(run, s)
  BY <1>1, ChainHeld
<1>3. /\ r.fdh = s.fdh /\ r.stray = s.stray /\ r.job = s.job
      /\ r.current = "none" /\ r.connected = s.connected /\ r.m = s.m
  BY <1>2 DEF Finished, EsqlRec
<1> HIDE DEF r, s
<1>4. (HasHandler(r) <=> HasHandler(s)) /\ (Armed(r) <=> Armed(s))
  BY <1>3 DEF HasHandler, Armed
<1>5. Client(r)
  BY <1>2, <1>3 DEF Client
<1>6. Free(r)
  BY <1>1, <1>2, <1>3, <1>4 DEF Held, Free, Quiet, Kept, Woken, Left
<1>7. NoCallbacks' => Noticed(r)
  BY <1>1, <1>2, <1>3, <1>4 DEF Noted, Noticed, Seen
<1> QED BY <1>1, <1>2, <1>5, <1>6, <1>7, OneLinks DEF CallbackPoints

LEMMA LinkNextDatabase == \A e \in Conns : LinkReady /\ Hushed /\ NextDatabase(e) => LinkInv'
<1> SUFFICES ASSUME NEW e \in Conns, LinkReady, Hushed, NextDatabase(e) PROVE LinkInv'
  OBVIOUS
<1> DEFINE s == esql[e]
           a == Finished(s)
<1>1. PICK d, q :
        esql' = [esql EXCEPT ![e] = Active([DatabaseSwitched(a, d) EXCEPT !.queue = q], "fdh", "off")]
  BY DEF NextDatabase
<1> DEFINE w == DatabaseSwitched(a, d)
           v == [w EXCEPT !.queue = q]
           r == Active(v, "fdh", "off")
<1>2. run.at = "next" /\ run.e = e /\ run' = [run EXCEPT !.at = "io", !.h = "fdh"]
  BY DEF NextDatabase, At
<1>3. /\ s \in EsqlRec /\ s.m \in MYSAC /\ Client(s) /\ TypeOK /\ LinkInv
      /\ Held(run, s)
      /\ NoCallbacks' => Noted(run, s)
  BY <1>2, ChainHeld
<1>4. run'.at = "io" /\ run'.e = e /\ run'.h = "fdh"
  BY <1>2, <1>3 DEF TypeOK
<1>5. /\ a \in EsqlRec /\ a.fdh = s.fdh /\ a.stray = s.stray /\ a.job = s.job
      /\ a.current = "none" /\ a.connected = s.connected /\ a.m = s.m
  BY <1>3, FinishedTyped DEF Finished, EsqlRec
<1> HIDE DEF a
<1>6. /\ v.fdh = s.fdh /\ v.stray = s.stray /\ v.job = s.job /\ v.connected = s.connected
      /\ \/ v.current = "database_set" /\ v.connected /\ v.m.sock = s.m.sock /\ v.m.proto = "db"
         \/ v.current = "none" /\ v.m = s.m
      /\ DOMAIN v = DOMAIN a
  <2>1. CASE a.connected
    <3>1. w = [a EXCEPT !.m = SetDatabase(@, d), !.current = "database_set"]
      BY <1>5, <2>1 DEF DatabaseSwitched
    <3>2. SetDatabase(s.m, d).sock = s.m.sock /\ SetDatabase(s.m, d).proto = "db"
      BY <1>3 DEF SetDatabase, MYSAC
    <3>3. /\ v.fdh = a.fdh /\ v.stray = a.stray /\ v.job = a.job /\ v.connected = a.connected
          /\ v.current = "database_set" /\ v.m = SetDatabase(a.m, d) /\ DOMAIN v = DOMAIN a
      BY <1>5, <3>1 DEF EsqlRec
    <3> QED BY <1>5, <2>1, <3>2, <3>3
  <2>2. CASE ~a.connected
    <3>1. PICK p : w = [a EXCEPT !.queue = p]
      BY <2>2 DEF DatabaseSwitched, Enqueued
    <3> QED BY <1>5, <3>1 DEF EsqlRec
  <2> QED BY <2>1, <2>2
<1>7. esql' = [esql EXCEPT ![e] = r]
  BY <1>1
<1> HIDE DEF v
<1>8. /\ r.fdh = (IF s.fdh = "none" THEN "none" ELSE "off") /\ r.stray = s.stray
      /\ r.job = s.job /\ r.connected = s.connected
      /\ \/ r.current = "database_set" /\ r.connected /\ r.m.sock = s.m.sock /\ r.m.proto = "db"
         \/ r.current = "none" /\ r.m = s.m
  <2>1. DOMAIN v = {"current", "queue", "curId", "curData", "connected", "fdh", "stray", "job",
                    "timeout", "rtimers", "m"}
    BY <1>5, <1>6 DEF EsqlRec
  <2> QED BY <1>6, <2>1 DEF Active
<1> HIDE DEF r, s
<1>9. /\ HasHandler(r) <=> HasHandler(s)
      /\ s.fdh = "none" => (Armed(r) <=> Armed(s))
  BY <1>8 DEF HasHandler, Armed
<1>10. Client(r)
  BY <1>3, <1>8 DEF Client
<1>11. Held(run', r)
  <2>1. Quiet(s) /\ Kept(s)
    BY <1>2, <1>3 DEF Held
  <2>2. r.fdh = "none" => Kept(r)
    BY <1>8, <1>9, <2>1 DEF Kept
  <2>3. ~HasHandler(r) => ~r.connected
    BY <1>8, <1>9, <2>1 DEF Quiet
  <2> QED BY <1>4, <1>8, <2>2, <2>3 DEF Held, Left
<1>12. NoCallbacks' => Noted(run', r)
  <2>1. Quiet(s)
    BY <1>2, <1>3 DEF Held
  <2> QED BY <1>2, <1>3, <1>4, <1>8, <1>9, <2>1 DEF Noted, Seen, Quiet
<1> QED BY <1>2, <1>3, <1>4, <1>7, <1>10, <1>11, <1>12, OneLinks DEF CallbackPoints

LEMMA LinkNextQuery == \A e \in Conns : LinkReady /\ Hushed /\ NextQuery(e) => LinkInv'
<1> SUFFICES ASSUME NEW e \in Conns, LinkReady, Hushed, NextQuery(e) PROVE LinkInv'
  OBVIOUS
<1> DEFINE all == Rebalanced(e)
           s == all[e]
           id == Head(s.queue).id
<1>1. run.at = "next" /\ run.e = e
  BY DEF NextQuery, At
<1>2. /\ Held(run, esql[e]) /\ Client(esql[e]) /\ TypeOK /\ LinkInv
      /\ NoCallbacks' => Noted(run, esql[e])
  BY <1>1, ChainHeld
<1>3. /\ all \in [Conns -> EsqlRec]
      /\ \A f \in Conns : Alike(esql[f], all[f])
  BY <1>2, RebalancedTyped, RebalancedAlike
<1>4. PICK m \in {SetQuery(s.m), QueryTooLong(s.m)}, at \in {"io", "error"} :
        LET t == Taken([s EXCEPT !.m = m], id)
        IN  /\ \/ at = "io" /\ esql' = [all EXCEPT ![e] = Active(t, "fdh", "off")]
               \/ at = "error" /\ esql' = [all EXCEPT ![e] = t]
            /\ run' = [run EXCEPT !.at = at, !.h = "fdh"]
            /\ at = "io" => m.proto = "query"
  <2>1. s.m \in MYSAC
    BY <1>3 DEF EsqlRec
  <2>2. SetQuery(s.m).proto = "query"
    BY <2>1 DEF SetQuery, MYSAC
  <2> QED BY <2>2 DEF NextQuery
<1> HIDE DEF all, id
<1> DEFINE a == [s EXCEPT !.m = m]
           t == Taken(a, id)
           r == IF at = "io" THEN Active(t, "fdh", "off") ELSE t
<1>5. /\ s \in EsqlRec /\ s.m \in MYSAC
      /\ s.current = esql[e].current /\ s.connected = esql[e].connected /\ s.job = esql[e].job
      /\ s.fdh = esql[e].fdh /\ s.stray = esql[e].stray
      /\ s.m.proto = esql[e].m.proto /\ s.m.sock = esql[e].m.sock
  BY <1>3 DEF Alike, SameHandlers, EsqlRec
<1>6. m.sock = s.m.sock /\ m.proto \in {"query", s.m.proto}
  BY <1>4, <1>5 DEF SetQuery, QueryTooLong, SetError, MYSAC
<1>7. /\ t.fdh = s.fdh /\ t.stray = s.stray /\ t.job = s.job
      /\ t.current = "query" /\ t.connected = s.connected /\ t.m = m
      /\ DOMAIN t = {"current", "queue", "curId", "curData", "connected", "fdh", "stray", "job",
                     "timeout", "rtimers", "m"}
  BY <1>5 DEF Taken, EsqlRec
<1>8. esql' = [all EXCEPT ![e] = r]
  BY <1>4
<1> HIDE DEF a, t
<1>9. /\ r.fdh = (IF at = "io" /\ s.fdh # "none" THEN "off" ELSE s.fdh) /\ r.stray = s.stray
      /\ r.job = s.job /\ r.current = "query" /\ r.connected = s.connected /\ r.m = m
  <2>1. CASE at = "io"
    BY <1>7, <2>1 DEF Active
  <2>2. CASE at # "io"
    BY <1>7, <2>2
  <2> QED BY <2>1, <2>2
<1> HIDE DEF r
<1>10. esql'[e] = r /\ \A f \in Conns \ {e} : Alike(esql[f], esql'[f])
  BY <1>3, <1>8
<1>11. /\ HasHandler(r) <=> HasHandler(esql[e])
       /\ at = "error" \/ r.fdh = "none" => (Armed(r) <=> Armed(esql[e]))
  BY <1>4, <1>5, <1>9 DEF HasHandler, Armed
<1> HIDE DEF s
<1>12. Client(r)
  BY <1>2, <1>5, <1>6, <1>9 DEF Client
<1>13. run'.at = at /\ run'.e = e /\ run'.h = "fdh"
  BY <1>1, <1>2, <1>4 DEF TypeOK
<1>14. Held(run', r)
  <2>1. Quiet(esql[e]) /\ Kept(esql[e])
    BY <1>1, <1>2 DEF Held
  <2>2. Quiet(r)
    BY <1>5, <1>9, <1>11, <2>1 DEF Quiet
  <2>3. at = "error" \/ r.fdh = "none" => Kept(r)
    BY <1>5, <1>6, <1>9, <1>11, <2>1 DEF Kept
  <2> QED BY <1>4, <1>9, <1>13, <2>2, <2>3 DEF Held, Quiet, Left
<1>15. NoCallbacks' => Noted(run', r)
  BY <1>1, <1>2, <1>4, <1>5, <1>6, <1>9, <1>11, <1>13 DEF Noted, Seen
<1>16. run'.at # "loop" /\ run'.at \notin CallbackPoints
  BY <1>4, <1>13 DEF CallbackPoints
<1> QED BY <1>1, <1>2, <1>10, <1>12, <1>13, <1>14, <1>15, <1>16, ChainLinks

LEMMA LinkError == \A e \in Conns : LinkReady /\ Hushed /\ Error(e) => LinkInv'
<1> SUFFICES ASSUME NEW e \in Conns, LinkReady, Hushed, Error(e) PROVE LinkInv'
  OBVIOUS
<1> DEFINE s == esql[e]
<1>1. CASE ErrorQuery(e) \/ ErrorOther(e)
  <2>1. /\ run.at = "error" /\ run.e = e /\ esql' = esql
        /\ \E at \in {"failed", "next", "down", "refused"} :
             /\ run' = [run EXCEPT !.at = at]
             /\ s.current = "query" => at # "refused"
             /\ s.current # "query" => at \in {"refused", "down"}
             /\ at = "failed" => callbacks # {}
             /\ at = "refused" => HasConnectCb
    BY <1>1 DEF ErrorQuery, ErrorOther, At, Goto, AfterFailure
  <2>2. /\ Held(run, s) /\ TypeOK
        /\ NoCallbacks' => Noted(run, s) /\ callbacks = {} /\ ~HasConnectCb
    BY <2>1, ChainHeld
  <2>3. /\ run'.at \in {"failed", "next", "down", "refused"} /\ run'.e = e
        /\ s.current = "query" => run'.at # "refused"
        /\ s.current # "query" => run'.at \in {"refused", "down"}
        /\ NoCallbacks' => run'.at \in {"next", "down"}
    BY <2>1, <2>2 DEF TypeOK
  <2>4. Held(run', s)
    BY <2>1, <2>2, <2>3 DEF Held
  <2>5. NoCallbacks' => Noted(run', s)
    BY <2>1, <2>2, <2>3 DEF Noted, Seen
  <2>6. \A f \in Conns : Alike(esql[f], esql'[f])
    BY <2>1 DEF Alike, SameHandlers
  <2> QED BY <2>1, <2>3, <2>4, <2>5, <2>6, LinkMovesOn DEF CallbackPoints
<1>2. CASE Down(e)
  BY <1>2, LinkObject, LinkCloseAndRetry DEF Down, At, Idle
<1> QED BY <1>1, <1>2 DEF Error

LEMMA LinkCbReturns == \A e \in Conns : LinkReady /\ Hushed /\ CbReturns(e) => LinkInv'
<1> SUFFICES ASSUME NEW e \in Conns, LinkReady, Hushed, CbReturns(e) PROVE LinkInv'
  OBVIOUS
<1> DEFINE s == esql[e]
<1>1. /\ run.at \in CallbackPoints /\ run.e = e
      /\ \E at \in {"next", "down"} :
           run' = [run EXCEPT !.at = at] /\ (run.at = "refused" => at = "down")
  BY DEF CbReturns, ConnectCbReturns, QueryCbReturns, At, Goto, AfterFailure, CallbackPoints
<1>2. /\ Held(run, s) /\ TypeOK /\ TypeInv
      /\ ~(NoCallbacks')
  BY <1>1, ChainHeld DEF CallbackPoints, LinkReady
<1>3. /\ run'.at \in {"next", "down"} /\ run'.e = e
      /\ run.at = "refused" => run'.at = "down"
  BY <1>1, <1>2 DEF TypeOK
<1>4. Held(run', s)
  BY <1>1, <1>2, <1>3 DEF Held, CallbackPoints
<1>5. ASSUME NEW f \in Conns PROVE Alike(esql[f], esql'[f])
  <2>1. CASE esql' = esql
    BY <2>1 DEF Alike, SameHandlers
  <2>2. CASE FreesError
    BY <1>2, <2>2, ClearedAlike
  <2> QED BY <2>1, <2>2 DEF CbReturns, ConnectCbReturns, QueryCbReturns, ResultReturned
<1> QED BY <1>1, <1>2, <1>3, <1>4, <1>5, LinkMovesOn DEF CallbackPoints

LEMMA LinkStep == LinkReady /\ [Next]_vars => LinkInv'
<1> SUFFICES ASSUME LinkReady, [Next]_vars PROVE LinkInv'
  OBVIOUS
<1>1. Hushed /\ TypeInv
  BY HushedStep DEF LinkReady, TypeInv
<1>2. CASE UNCHANGED vars
  <2>1. LinkInv
    BY DEF LinkReady
  <2> QED BY <1>2, <2>1 DEF vars, LinkInv, LinkOf, Busy, NoCallbacks
<1>3. ASSUME NEW e \in Conns, Sources(e) PROVE LinkInv'
  BY <1>1, <1>3, LinkFdReady, LinkRunJob, LinkTimeoutFires, LinkReconnectFires DEF Sources
<1>4. ASSUME NEW e \in Conns, Chain(e) PROVE LinkInv'
  <2>1. CASE Io(e)
    BY <1>1, <2>1, LinkIoWait, LinkIoDone, LinkIoFail DEF Io
  <2>2. CASE Complete(e)
    BY <1>1, <2>2, LinkCompleteInit, LinkComplete DEF Complete
  <2>3. CASE NextCall(e)
    BY <1>1, <2>3, LinkNextIdle, LinkNextDatabase, LinkNextQuery DEF NextCall
  <2> QED BY <1>1, <1>4, <2>1, <2>2, <2>3, LinkError, LinkCbReturns DEF Chain
<1>5. CASE ResultEvent \/ ResultUnref
  BY <1>1, <1>5, LinkErrorCleared
     DEF ResultEvent, ResultUnref, ResultReturned, LoopTurn, ProgramTurn, ProgramPoints
<1> QED BY <1>2, <1>3, <1>4, <1>5, LinkProgram DEF Next

LEMMA LinkInit == Init => LinkInv
<1> SUFFICES ASSUME Init PROVE LinkInv
  OBVIOUS
<1>1. /\ run.at = "loop" /\ callbacks = {} /\ budget = Budget
      /\ Budget["callback"] \in Nat
  BY DEF Init, Idle, BudgetKinds
<1>2. ASSUME NEW e \in Conns PROVE LinkOf(e)
  <2>1. esql[e] = NewEsql
    BY DEF Init
  <2>2. Client(NewEsql) /\ Free(NewEsql) /\ Noticed(NewEsql)
    BY DEF NewEsql, Fresh, Client, Free, Woken, Kept, Left, Noticed, Seen, HasHandler, Armed
  <2> QED BY <1>1, <2>1, <2>2 DEF LinkOf, Busy
<1> QED BY <1>1, <1>2 DEF LinkInv, CallbackPoints

LEMMA LinkInvariant == Spec => []LinkReady
<1>1. Init => OneHandler
  BY DEF Init, OneHandler, NewEsql
<1>2. TypeInv /\ OneHandler /\ LinkInv /\ [Next]_vars => OneHandler' /\ LinkInv'
  BY HandlerStep, LinkStep DEF LinkReady
<1>3. LinkReady <=> TypeInv /\ OneHandler /\ LinkInv
  BY DEF LinkReady
<1>4. Init => LinkInv
  BY LinkInit
<1> QED BY <1>1, <1>2, <1>3, <1>4, TypeInvariant, PTL DEF Spec

\* Whatever is dialled, closed, timed out or failing before: when the main loop
\* is reached, a connected object whose handshake or query is under way has a
\* job or a handler armed.  No path through esql_connect_handler, esql_next and
\* esql_event_error leaves it to wait for nothing (src/lib/esql_events.c:289-304).
THEOREM WakeableCorrect == Spec => []Wakeable
<1>1. LinkReady => Wakeable
  <2> SUFFICES ASSUME LinkReady, run.at = "loop", NEW e \in Conns PROVE Woken(esql[e])
    BY DEF Wakeable, Connected, Woken
  <2> QED BY LoopFree DEF LoopTurn, Free
<1> QED BY <1>1, LinkInvariant, PTL

\* As long as the program is called back for events alone, a login the server
\* accepted is never kept from it: no timer, dial or disconnect leaves the client
\* logged in behind an object that is neither connected nor in its handshake.
THEOREM LoginNoticedCorrect == Spec => []LoginNoticed
<1>1. LinkReady => LoginNoticed
  <2> SUFFICES ASSUME LinkReady, run.at = "loop", NoCallbacks, NEW e \in Conns,
                      esql[e].m.proto \notin {"start", "auth", "failed"}, esql[e].m.sock = "live"
               PROVE  esql[e].connected \/ esql[e].current = "init"
    BY DEF LoginNoticed
  <2>1. Noticed(esql[e])
    BY LoopFree DEF LoopTurn
  <2> QED BY <2>1 DEF Noticed, Seen
<1> QED BY <1>1, LinkInvariant, PTL

----------------------------------------------------------------------------
(* Trying again *)

\* KeepsTrying, of one object and one step.
Persists(e) ==
  reconnect = "on" /\ budget'["disconnect"] = budget["disconnect"] /\ Trying(e) /\ ~(Trying(e)') =>
    esql'[e].rtimers < esql[e].rtimers \/ At("next", e)

LEMMA StillTries ==
  ASSUME NEW e \in Conns, TriesOn(esql[e], esql'[e]), Busy(e) => Busy(e)'
  PROVE  Persists(e)
<1>1. \A b \in BOOLEAN : Tries(esql[e], b) => Tries(esql'[e], b)
  BY DEF TriesOn
<1>2. Busy(e) \in BOOLEAN /\ Busy(e)' \in BOOLEAN
  BY DEF Busy
<1>3. Trying(e) <=> Tries(esql[e], Busy(e))
  BY DEF Trying, Tries
<1>4. Trying(e)' <=> Tries(esql'[e], Busy(e)')
  BY DEF Trying, Tries
<1>5. Tries(esql'[e], Busy(e)) => Tries(esql'[e], Busy(e)')
  BY DEF Tries
<1> QED BY <1>1, <1>2, <1>3, <1>4, <1>5 DEF Persists

\* An object that a step at another one leaves alone.
LEMMA AloneTries ==
  ASSUME LinkReady, NEW f \in Conns, Alike(esql[f], esql'[f]), Busy(f) => Busy(f)'
  PROVE  Persists(f)
  BY LinkObject, AlikeKeeps, StillTries

LEMMA UntouchedTries ==
  ASSUME LinkReady, NEW e \in Conns, NEW r, esql' = [esql EXCEPT ![e] = r],
         run.at = "loop" \/ run.e = e
  PROVE  \A f \in Conns \ {e} : Persists(f)
<1> SUFFICES ASSUME NEW f \in Conns \ {e} PROVE Persists(f)
  OBVIOUS
<1>1. esql'[f] = esql[f] /\ ~Busy(f)
  BY DEF LinkReady, TypeInv, TypeOK, Busy
<1> QED BY <1>1, AloneTries DEF Alike, SameHandlers

LEMMA TryProgram == LinkReady /\ Program => \A e \in Conns : Persists(e)
<1> SUFFICES ASSUME LinkReady, Program, NEW e \in Conns PROVE Persists(e)
  OBVIOUS
<1>1. CASE Disconnect
  <2>1. /\ budget["disconnect"] \in Nat
        /\ budget'["disconnect"] = budget["disconnect"] - 1
    BY <1>1 DEF Disconnect, Spend, LinkReady, TypeInv, TypeOK, BudgetKinds
  <2> QED BY <2>1 DEF Persists
<1>2. CASE ~Disconnect
  <2>1. run' = run
    BY <1>2 DEF Program, Connect, TimeoutSet, ReconnectSet, DatabaseSet, QueryCallbackSet,
                QueryStart, QueryQueue, QueryRefused, Issue
  <2> QED BY <1>2, <2>1, CallKeepsLink, StillTries DEF Busy
<1> QED BY <1>1, <1>2

\* The chain enters an object.
LEMMA TryEnters ==
  ASSUME LinkReady, LoopTurn, NEW e \in Conns, NEW r, esql' = [esql EXCEPT ![e] = r],
         HasHandler(r) <=> HasHandler(esql[e]), r.current = esql[e].current,
         r.connected = esql[e].connected, r.rtimers = esql[e].rtimers,
         run'.at = "io", run'.e = e
  PROVE  \A f \in Conns : Persists(f)
<1>1. esql'[e] = r /\ ~Busy(e) /\ Busy(e)'
  BY DEF LinkReady, TypeInv, TypeOK, Busy, LoopTurn
<1>2. Trying(e) => Trying(e)'
  <2>1. Armed(esql[e]) => HasHandler(esql[e])
    BY DEF Armed, HasHandler
  <2> QED BY <1>1, <2>1 DEF Trying
<1>3. Persists(e)
  BY <1>2 DEF Persists
<1> QED BY <1>3, UntouchedTries DEF LoopTurn

LEMMA TryCloseAndRetry ==
  ASSUME LinkReady, NEW e \in Conns, NEW s \in EsqlRec, CloseAndRetry(e, s),
         s.rtimers = esql[e].rtimers, run.at = "loop" \/ run.e = e
  PROVE  \A f \in Conns : Persists(f)
<1> DEFINE r == [Closed(s) EXCEPT !.rtimers = IF reconnect = "on" THEN @ + 1 ELSE @]
<1>1. esql' = [esql EXCEPT ![e] = r]
  BY DEF CloseAndRetry
<1>2. reconnect = "on" => r.rtimers > 0
  <2>1. Closed(s) \in EsqlRec
    BY ClosedTyped
  <2> QED BY <2>1 DEF EsqlRec
<1> HIDE DEF r
<1>3. esql'[e] = r
  BY <1>1 DEF LinkReady, TypeInv, TypeOK
<1>4. Persists(e)
  BY <1>2, <1>3 DEF Persists, Trying
<1> QED BY <1>1, <1>4, UntouchedTries

LEMMA TrySources ==
  \A e \in Conns : LinkReady /\ Sources(e) => \A f \in Conns : Persists(f)
<1> SUFFICES ASSUME NEW e \in Conns, LinkReady, Sources(e) PROVE \A f \in Conns : Persists(f)
  OBVIOUS
<1> DEFINE s == esql[e]
<1>1. s \in EsqlRec /\ TypeOK
  BY LinkObject
<1>2. CASE FdReady(e)
  <2>1. PICK h \in {"fdh", "stray"}, hup \in BOOLEAN :
          /\ esql' = [esql EXCEPT ![e] = Active(s, h, "off")]
          /\ run' = [at |-> "io", e |-> e, hup |-> hup, h |-> h]
    BY <1>2 DEF FdReady
  <2> DEFINE r == Active(s, h, "off")
  <2>2. /\ HasHandler(r) <=> HasHandler(s)
        /\ r.current = s.current /\ r.connected = s.connected /\ r.rtimers = s.rtimers
    BY <1>1, ActiveParts
  <2>3. esql' = [esql EXCEPT ![e] = r] /\ run'.at = "io" /\ run'.e = e
    BY <2>1
  <2> HIDE DEF r
  <2> QED BY <1>2, <2>2, <2>3, TryEnters DEF FdReady
<1>3. CASE RunJob(e)
  <2> DEFINE a == [s EXCEPT !.job = FALSE]
             r == Active(a, "fdh", "off")
  <2>1. /\ a \in EsqlRec /\ a.fdh = s.fdh /\ a.stray = s.stray
        /\ a.current = s.current /\ a.connected = s.connected /\ a.rtimers = s.rtimers
    BY <1>1 DEF EsqlRec
  <2>2. esql' = [esql EXCEPT ![e] = r] /\ run'.at = "io" /\ run'.e = e
    BY <1>3 DEF RunJob
  <2> HIDE DEF a
  <2>3. HasHandler(a) <=> HasHandler(s)
    BY <2>1 DEF HasHandler
  <2>4. /\ HasHandler(r) <=> HasHandler(s)
        /\ r.current = s.current /\ r.connected = s.connected /\ r.rtimers = s.rtimers
    BY <2>1, <2>3, ActiveParts
  <2> HIDE DEF r
  <2> QED BY <1>3, <2>2, <2>4, TryEnters DEF RunJob
<1>4. CASE TimeoutFires(e)
  <2>1. [s EXCEPT !.timeout = FALSE] \in EsqlRec /\ [s EXCEPT !.timeout = FALSE].rtimers = s.rtimers
    BY <1>1 DEF EsqlRec
  <2> QED BY <1>4, <2>1, TryCloseAndRetry DEF TimeoutFires, LoopTurn
<1>5. CASE ReconnectFires(e)
  <2> DEFINE a == [s EXCEPT !.rtimers = @ - 1]
  <2>1. a \in EsqlRec /\ a.rtimers = s.rtimers - 1 /\ s.rtimers \in Nat
    <3>1. s.rtimers - 1 \in Nat /\ s.rtimers \in Nat
      BY <1>1, <1>5 DEF EsqlRec, ReconnectFires
    <3> QED BY <1>1, <3>1 DEF EsqlRec
  <2>2. \/ \E r \in Dialled(a) :
             esql' = [esql EXCEPT ![e] = IF database = NoDb THEN r ELSE DatabaseSwitched(r, database)]
        \/ \E r \in NotDialled(a) : esql' = [esql EXCEPT ![e] = r]
    BY <1>5 DEF ReconnectFires
  <2> HIDE DEF a
  <2>3. ASSUME NEW r, r \in Dialled(a) \/ r \in NotDialled(a)
        PROVE  r.rtimers = a.rtimers /\ DatabaseSwitched(r, database).rtimers = a.rtimers
    BY <2>1, <2>3, DialKeeps, DialTyped, SwitchKeeps
  <2>4. PICK w : esql' = [esql EXCEPT ![e] = w] /\ w.rtimers = a.rtimers
    BY <2>2, <2>3
  <2>5. esql'[e].rtimers < esql[e].rtimers
    BY <1>1, <2>1, <2>4 DEF TypeOK
  <2> QED BY <1>5, <2>4, <2>5, UntouchedTries DEF Persists, ReconnectFires, LoopTurn
<1> QED BY <1>2, <1>3, <1>4, <1>5 DEF Sources

\* io wants more: the handshake it is in has a handler, which waits now.
LEMMA TryIoWait ==
  \A e \in Conns : LinkReady /\ Hushed /\ IoWait(e) => \A f \in Conns : Persists(f)
<1> SUFFICES ASSUME NEW e \in Conns, LinkReady, Hushed, IoWait(e)
             PROVE  \A f \in Conns : Persists(f)
  OBVIOUS
<1> DEFINE s == esql[e]
<1>1. run.at = "io" /\ run.e = e
  BY DEF IoWait, At
<1>2. /\ s \in EsqlRec /\ s.m \in MYSAC /\ Client(s) /\ TypeOK
      /\ Held(run, s)
  BY <1>1, ChainHeld
<1>3. PICK m \in Waiting(s.m) : esql' = [esql EXCEPT ![e] = Active([s EXCEPT !.m = m], run.h, "armed")]
  BY DEF IoWait
<1>4. m \in MYSAC /\ run.h \in {"fdh", "stray"}
  BY <1>2, <1>3, IoTyped DEF TypeOK
<1> DEFINE a == [s EXCEPT !.m = m]
           r == Active(a, run.h, "armed")
<1>5. /\ a \in EsqlRec /\ a.fdh = s.fdh /\ a.stray = s.stray
      /\ a.current = s.current /\ a.connected = s.connected /\ a.rtimers = s.rtimers
  BY <1>2, <1>4 DEF EsqlRec
<1>6. esql' = [esql EXCEPT ![e] = r]
  BY <1>3
<1> HIDE DEF a
<1>7. /\ r.fdh = (IF run.h = "fdh" /\ s.fdh # "none" THEN "armed" ELSE s.fdh)
      /\ r.stray = (IF run.h = "stray" /\ s.stray # "none" THEN "armed" ELSE s.stray)
      /\ r.current = s.current /\ r.connected = s.connected /\ r.rtimers = s.rtimers
  BY <1>4, <1>5, ActiveParts
<1>8. esql'[e] = r
  BY <1>2, <1>6 DEF TypeOK
<1> HIDE DEF r
<1>9. s.m.proto \in {"start", "auth", "db", "query", "queryDone"}
  BY <1>2, <1>3, ClientWaits
<1>10. ASSUME s.current = "init", HasHandler(s), ~s.connected PROVE Armed(r)
  <2>1. s.m.proto \in {"start", "auth"}
    BY <1>2, <1>9, <1>10 DEF Client
  <2>2. CASE run.h = "stray"
    BY <1>1, <1>2, <1>7, <2>2 DEF Held, Armed
  <2>3. CASE run.h = "fdh" /\ s.fdh # "none"
    BY <1>7, <2>3 DEF Armed
  <2>4. CASE run.h = "fdh" /\ s.fdh = "none"
    <3>1. Armed(s)
      BY <1>1, <1>2, <1>10, <2>1, <2>4 DEF Held, Kept
    <3> QED BY <1>7, <2>4, <3>1 DEF Armed
  <2> QED BY <1>4, <2>2, <2>3, <2>4
<1>11. Trying(e) => Trying(e)'
  <2>1. Armed(s) => HasHandler(s)
    BY DEF Armed, HasHandler
  <2> QED BY <1>7, <1>8, <1>10, <2>1 DEF Trying
<1> QED BY <1>1, <1>6, <1>11, UntouchedTries DEF Persists

LEMMA TryChain ==
  \A e \in Conns : LinkReady /\ Hushed /\ Chain(e) => \A f \in Conns : Persists(f)
<1> SUFFICES ASSUME NEW e \in Conns, LinkReady, Hushed, Chain(e) PROVE \A f \in Conns : Persists(f)
  OBVIOUS
<1> DEFINE s == esql[e]
<1>1. s \in EsqlRec /\ TypeOK /\ TypeInv
  BY LinkObject DEF LinkReady
<1>2. ASSUME NEW r, esql' = [esql EXCEPT ![e] = r], run.e = e, run'.e = e, run'.at # "loop",
             SameHandlers(s, r), r.current = s.current, r.connected = s.connected,
             r.rtimers = s.rtimers
      PROVE  \A f \in Conns : Persists(f)
  <2>1. esql'[e] = r /\ Busy(e)'
    BY <1>1, <1>2 DEF TypeOK, Busy
  <2>2. (HasHandler(r) <=> HasHandler(s)) /\ (Armed(r) <=> Armed(s))
    BY <1>2 DEF SameHandlers, HasHandler, Armed
  <2>3. TriesOn(s, r)
    BY <1>2, <2>2 DEF TriesOn, Tries
  <2>4. Persists(e)
    BY <2>1, <2>3, StillTries
  <2> QED BY <1>2, <2>4, UntouchedTries
<1>3. ASSUME \A f \in Conns : Alike(esql[f], esql'[f]), run'.e = run.e, run'.at # "loop"
      PROVE  \A f \in Conns : Persists(f)
  BY <1>3, AloneTries DEF Busy
<1>4. ASSUME NEW at \in Points \ {"loop"}, run' = [run EXCEPT !.at = at]
      PROVE  run'.e = run.e /\ run'.at # "loop"
  BY <1>1, <1>4 DEF TypeOK
<1>5. /\ {"complete", "error", "next", "ready", "result", "failed", "refused", "down"}
           \subseteq Points \ {"loop"}
      /\ AfterFailure \in {"next", "down"}
  BY DEF Points, AfterFailure
<1>6. \A f \in Conns : Alike(esql[f], esql[f])
  BY DEF Alike, SameHandlers
<1>7. CASE IoDone(e) \/ IoFail(e)
  <2>1. PICK m : esql' = [esql EXCEPT ![e] = [s EXCEPT !.m = m]]
    BY <1>1, <1>7 DEF IoDone, IoFail, TypeOK
  <2>2. LET r == [s EXCEPT !.m = m]
        IN  /\ SameHandlers(s, r) /\ r.current = s.current /\ r.connected = s.connected
            /\ r.rtimers = s.rtimers
    BY <1>1 DEF EsqlRec, SameHandlers
  <2>3. run.e = e /\ run'.e = e /\ run'.at # "loop"
    BY <1>4, <1>5, <1>7 DEF IoDone, IoFail, At, Goto
  <2> QED BY <1>2, <2>1, <2>2, <2>3
<1>8. CASE CompleteInit(e)
  <2>1. esql' = [esql EXCEPT ![e] = [s EXCEPT !.connected = TRUE]] /\ run.e = e
    BY <1>1, <1>8 DEF CompleteInit, TypeOK, At
  <2>2. esql'[e].connected
    BY <1>1, <2>1 DEF TypeOK, EsqlRec
  <2>3. Persists(e)
    BY <2>2 DEF Persists, Trying
  <2> QED BY <2>1, <2>3, UntouchedTries
<1>9. CASE CompleteQuery(e) \/ CompleteOther(e) \/ ErrorQuery(e) \/ ErrorOther(e) \/ ConnectCbReturns(e)
  <2>1. esql' = esql /\ \E at \in Points \ {"loop"} : run' = [run EXCEPT !.at = at]
    BY <1>5, <1>9 DEF CompleteQuery, CompleteOther, ErrorQuery, ErrorOther, ConnectCbReturns, Goto
  <2> QED BY <1>3, <1>4, <1>6, <2>1
<1>10. CASE QueryCbReturns(e)
  <2>1. \E at \in Points \ {"loop"} : run' = [run EXCEPT !.at = at]
    BY <1>5, <1>10 DEF QueryCbReturns, Goto
  <2>2. \A f \in Conns : Alike(esql[f], esql'[f])
    BY <1>1, <1>10, ClearedAlike DEF QueryCbReturns, ResultReturned
  <2> QED BY <1>3, <1>4, <2>1, <2>2
<1>11. CASE Down(e)
  BY <1>1, <1>11, TryCloseAndRetry DEF Down, At
<1>12. CASE NextIdle(e) \/ NextDatabase(e)
  <2>1. At("next", e) /\ \E r : esql' = [esql EXCEPT ![e] = r]
    BY <1>12 DEF NextIdle, NextDatabase
  <2> QED BY <2>1, UntouchedTries DEF Persists, At
<1>13. CASE NextQuery(e)
  <2>1. At("next", e) /\ \E r : esql' = [Rebalanced(e) EXCEPT ![e] = r]
    BY <1>13 DEF NextQuery
  <2>2. ASSUME NEW f \in Conns \ {e} PROVE Alike(esql[f], esql'[f]) /\ ~Busy(f)
    BY <1>1, <2>1, RebalancedTyped, RebalancedAlike DEF Busy, At
  <2> QED BY <2>1, <2>2, AloneTries DEF Persists
<1> QED BY <1>7, <1>8, <1>9, <1>10, <1>11, <1>12, <1>13, TryIoWait
        DEF Chain, Io, Complete, NextCall, Error, CbReturns

\* While reconnecting is on, an object that is connected, in a handshake that
\* goes on or waiting for its timer stays so, whatever fails, times out or is
\* dialled, unless the program disconnects it, its last timer's dial fails at
\* once, or esql_next forgets the handshake a callback began
\* (src/lib/esql_events.c:37, 210).
THEOREM KeepsTryingCorrect == Spec => KeepsTrying
<1>1. LinkReady /\ [Next]_vars => \A e \in Conns : Persists(e)
  <2> SUFFICES ASSUME LinkReady, [Next]_vars, NEW e \in Conns PROVE Persists(e)
    OBVIOUS
  <2>1. Hushed
    BY HushedStep DEF LinkReady, TypeInv
  <2>2. CASE UNCHANGED vars
    BY <2>2, AloneTries DEF vars, Alike, SameHandlers, Busy
  <2>3. CASE ResultEvent \/ ResultUnref
    <3>1. Alike(esql[e], esql'[e]) /\ run' = run
      BY <2>3, ClearedAlike DEF ResultEvent, ResultUnref, ResultReturned, LinkReady
    <3> QED BY <3>1, AloneTries DEF Busy
  <2> QED BY <2>1, <2>2, <2>3, TryProgram, TrySources, TryChain DEF Next
<1>2. LinkReady /\ [Next]_vars =>
        [\A e \in Conns :
           reconnect = "on" /\ budget'["disconnect"] = budget["disconnect"] /\ Trying(e) /\ ~(Trying(e)') =>
             esql'[e].rtimers < esql[e].rtimers \/ At("next", e)]_vars
  BY <1>1 DEF Persists
<1> QED BY <1>2, LinkInvariant, PTL DEF Spec, KeepsTrying
=============================================================================
