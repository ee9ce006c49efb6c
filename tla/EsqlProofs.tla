----------------------------- MODULE EsqlProofs -----------------------------
(***************************************************************************)
(* Proofs about the event loop, for pools of any size, any number of       *)
(* queries and any settings.                                               *)
(***************************************************************************)
EXTENDS EsqlProps, FiniteSetTheorems, WellFoundedInduction, TLAPS

USE SizeAssumption, PooledAssumption, MaxIdAssumption, SettingsAssumption,
    BudgetAssumption, DbNamesAssumption

----------------------------------------------------------------------------
(* The MySAC client *)

\* What the commands and the setup leave behind is a client state.
LEMMA CommandsTyped ==
  ASSUME NEW m \in MYSAC
  PROVE  /\ Setup(m) \in MYSAC
         /\ SetQuery(m) \in MYSAC
         /\ QueryTooLong(m) \in MYSAC
         /\ SetError(m) \in MYSAC
         /\ ClearError(m) \in MYSAC
         /\ \A d \in DbNames : SetDatabase(m, d) \in MYSAC
  BY DEF MYSAC, Protos, Sockets, Setup, SetQuery, QueryTooLong, SetError, ClearError, SetDatabase

LEMMA FreshTyped == Fresh \in MYSAC
  BY DEF MYSAC, Protos, Sockets, Fresh, NoDb

\* So is whatever one call of io or connect leaves behind.
LEMMA IoTyped ==
  ASSUME NEW m \in MYSAC
  PROVE  /\ Waiting(m) \subseteq MYSAC
         /\ Done(m) \subseteq MYSAC
         /\ Failing(m) \subseteq MYSAC
<1>1. Waiting(m) \subseteq MYSAC
  <2>1. [m EXCEPT !.proto = "auth", !.sock = "live"] \in MYSAC
    BY DEF MYSAC, Protos, Sockets
  <2> QED BY <2>1, CommandsTyped DEF Waiting
<1>2. Done(m) \subseteq MYSAC
  <2>1. Ended(m) \in MYSAC
    BY DEF Ended, MYSAC, Protos, NoDb
  <2> QED BY <2>1, CommandsTyped DEF Done
<1>3. Failing(m) \subseteq MYSAC
  <2>1. ASSUME NEW s \in Sockets PROVE Breaking(m, s) \subseteq MYSAC
    <3>1. Broken(m, s) \in MYSAC
      BY DEF Broken, MYSAC, Protos
    <3> QED BY <3>1, CommandsTyped DEF Breaking
  <2>2. [SetError(m) EXCEPT !.proto = "start", !.sock = "none"] \in MYSAC
    BY DEF SetError, MYSAC, Protos, Sockets
  <2>3. m.sock \in Sockets /\ "live" \in Sockets /\ "dead" \in Sockets
    BY DEF MYSAC, Sockets
  <2> QED BY <2>1, <2>2, <2>3, CommandsTyped DEF Failing
<1> QED BY <1>1, <1>2, <1>3

LEMMA ConnectTyped ==
  ASSUME NEW m \in MYSAC
  PROVE  /\ ConnectWaiting(m) \subseteq MYSAC
         /\ ConnectDone(m) \subseteq MYSAC
         /\ ConnectFailing(m) \subseteq MYSAC
  BY CommandsTyped, IoTyped DEF ConnectWaiting, ConnectDone, ConnectFailing

----------------------------------------------------------------------------
(* Objects *)

LEMMA ConstantsTyped ==
  /\ Conns \subseteq Nat /\ 0 \in Conns /\ IsFiniteSet(Conns)
  /\ Ids \subseteq Nat /\ 0 \notin Ids
  /\ \A id \in Ids : DataOf(id) \in Ids \cup {NoData}
<1>1. IsFiniteSet(Conns)
  BY FS_Interval DEF Conns
<1> QED BY <1>1 DEF Conns, Ids, DataOf, NoData

\* A queue entry is a query with its identifier or a switch with its database.
LEMMA CallTyped ==
  /\ \A id \in Ids : [fn |-> "query", id |-> id, db |-> NoDb] \in Call
  /\ \A d \in DbNames : [fn |-> "database_set", id |-> 0, db |-> d] \in Call
  /\ \A c \in Call : \/ c.fn = "query" /\ c.id \in Ids
                     \/ c.fn = "database_set" /\ c.db \in DbNames
  BY DEF Call

\* Every helper takes an object to an object.
LEMMA ClosedTyped == ASSUME NEW s \in EsqlRec PROVE Closed(s) \in EsqlRec
  BY FreshTyped DEF Closed, EsqlRec, Handlers

LEMMA ClientTyped ==
  ASSUME NEW s \in EsqlRec, NEW m \in MYSAC PROVE [s EXCEPT !.m = m] \in EsqlRec
  BY DEF EsqlRec

LEMMA EnqueuedTyped ==
  ASSUME NEW s \in EsqlRec, NEW call \in Call PROVE Enqueued(s, call) \in EsqlRec
<1>1. s.queue \in Seq(Call)
  BY DEF EsqlRec
<1>2. Append(s.queue, call) \in Seq(Call)
  BY <1>1
<1> QED BY <1>2 DEF Enqueued, EsqlRec

LEMMA StartedTyped ==
  ASSUME NEW s \in EsqlRec, NEW id \in Ids PROVE Started(s, id) \in EsqlRec
<1>1. s.m \in MYSAC
  BY DEF EsqlRec
<1> QED BY <1>1, CommandsTyped, ConstantsTyped DEF Started, EsqlRec, Currents

LEMMA FinishedTyped == ASSUME NEW s \in EsqlRec PROVE Finished(s) \in EsqlRec
  BY DEF Finished, EsqlRec, Currents

LEMMA ActiveTyped ==
  ASSUME NEW s \in EsqlRec, NEW h, NEW state \in Handlers PROVE Active(s, h, state) \in EsqlRec
  BY DEF Active, EsqlRec, Handlers

LEMMA WithHandlerTyped ==
  ASSUME NEW s \in EsqlRec, NEW state \in Handlers PROVE WithHandler(s, state) \in EsqlRec
  BY DEF WithHandler, EsqlRec, Handlers

LEMMA DialTyped ==
  ASSUME NEW s \in EsqlRec
  PROVE  Dialled(s) \subseteq EsqlRec /\ NotDialled(s) \subseteq EsqlRec
<1>1. s.m \in MYSAC
  BY DEF EsqlRec
<1>2. ASSUME NEW m \in MYSAC, NEW state \in Handlers
      PROVE  [WithHandler([s EXCEPT !.m = m], state) EXCEPT !.current = "init"] \in EsqlRec
  <2>1. WithHandler([s EXCEPT !.m = m], state) \in EsqlRec
    BY ClientTyped, WithHandlerTyped
  <2> QED BY <2>1 DEF EsqlRec, Currents
<1>3. "armed" \in Handlers /\ "off" \in Handlers
  BY DEF Handlers
<1>4. Dialled(s) \subseteq EsqlRec
  <2> SUFFICES ASSUME NEW r \in Dialled(s) PROVE r \in EsqlRec
    OBVIOUS
  <2>1. PICK m \in ConnectWaiting(s.m) \cup ConnectDone(s.m), state \in {"armed", "off"} :
          r = [WithHandler([s EXCEPT !.m = m], state) EXCEPT !.current = "init"]
    BY DEF Dialled
  <2> QED BY <2>1, <1>1, <1>2, <1>3, ConnectTyped
<1>5. NotDialled(s) \subseteq EsqlRec
  BY <1>1, ClientTyped, ConnectTyped DEF NotDialled
<1> QED BY <1>4, <1>5

\* Dialling leaves the object in its handshake; nothing else is the dial's.
LEMMA DialKeeps ==
  ASSUME NEW s \in EsqlRec
  PROVE  /\ \A r \in Dialled(s) : /\ r.current = "init" /\ r.connected = s.connected
                                 /\ r.rtimers = s.rtimers
         /\ \A r \in NotDialled(s) : /\ r.current = s.current /\ r.connected = s.connected
                                    /\ r.curId = s.curId /\ r.rtimers = s.rtimers
<1>1. \A r \in NotDialled(s) : /\ r.current = s.current /\ r.connected = s.connected
                               /\ r.curId = s.curId /\ r.rtimers = s.rtimers
  BY DEF NotDialled, EsqlRec
<1>2. ASSUME NEW r \in Dialled(s)
      PROVE  r.current = "init" /\ r.connected = s.connected /\ r.rtimers = s.rtimers
  <2>1. PICK m, state :
          r = [WithHandler([s EXCEPT !.m = m], state) EXCEPT !.current = "init"]
    BY DEF Dialled
  <2> QED BY <2>1 DEF WithHandler, EsqlRec
<1> QED BY <1>1, <1>2

LEMMA DatabaseSwitchedTyped ==
  ASSUME NEW s \in EsqlRec, NEW d \in DbNames PROVE DatabaseSwitched(s, d) \in EsqlRec
<1>1. CASE s.current = "none" /\ s.connected
  <2>1. SetDatabase(s.m, d) \in MYSAC
    BY CommandsTyped DEF EsqlRec
  <2> QED BY <1>1, <2>1 DEF DatabaseSwitched, EsqlRec, Currents
<1>2. CASE ~(s.current = "none" /\ s.connected)
  BY <1>2, CallTyped, EnqueuedTyped DEF DatabaseSwitched
<1> QED BY <1>1, <1>2

\* Asking for a switch disturbs no query under way and no connection.
LEMMA SwitchKeeps ==
  ASSUME NEW s \in EsqlRec, NEW d
  PROVE  /\ DatabaseSwitched(s, d).connected = s.connected
         /\ DatabaseSwitched(s, d).rtimers = s.rtimers
         /\ \/ DatabaseSwitched(s, d).current = "database_set"
            \/ /\ DatabaseSwitched(s, d).current = s.current
               /\ DatabaseSwitched(s, d).curId = s.curId
  BY DEF DatabaseSwitched, Enqueued, EsqlRec

----------------------------------------------------------------------------
(* Counting connections *)

LEMMA ConnectedFinite ==
  Connected \subseteq Conns /\ IsFiniteSet(Connected) /\ Cardinality(Connected) \in Nat
<1>1. Connected \subseteq Conns
  BY DEF Connected
<1> QED BY <1>1, ConstantsTyped, FS_Subset, FS_CardinalityType

\* Disconnecting the members in S takes the connected ones among them off the count.
LEMMA CountWithout ==
  ASSUME TypeOK, NEW S \in SUBSET Conns, Pooled
  PROVE  /\ PoolWithout(S).connected = pool.connected
         /\ PoolWithout(S).count = pool.count - Cardinality(Connected) + Cardinality(Connected \ S)
         /\ Cardinality(Connected \ S) \in Nat
         /\ PoolWithout(S) = [connected |-> pool.connected, count |-> PoolWithout(S).count]
<1>1. {e \in S : esql[e].connected} = Connected \cap S
  BY DEF Connected
<1>2. /\ Cardinality(Connected \ S) = Cardinality(Connected) - Cardinality(Connected \cap S)
      /\ IsFiniteSet(Connected \ S)
  BY ConnectedFinite, FS_Difference
<1>3. IsFiniteSet(Connected \cap S)
  BY ConnectedFinite, FS_Subset
<1>4. Cardinality(Connected \ S) \in Nat /\ Cardinality(Connected \cap S) \in Nat
  BY <1>2, <1>3, FS_CardinalityType
<1>5. PoolWithout(S) = [pool EXCEPT !.count = @ - Cardinality(Connected \cap S)]
  BY <1>1 DEF PoolWithout
<1>6. pool \in [connected : BOOLEAN, count : Nat]
  BY DEF TypeOK
<1> QED BY <1>2, <1>4, <1>5, <1>6, ConnectedFinite

\* One more member connected.
LEMMA CountWith ==
  ASSUME NEW e \in Conns
  PROVE  /\ Cardinality(Connected \cup {e}) \in Nat
         /\ Cardinality(Connected \cup {e}) <= Cardinality(Connected) + 1
         /\ e \notin Connected => Cardinality(Connected \cup {e}) = Cardinality(Connected) + 1
<1>1. /\ Cardinality(Connected \cup {e}) =
           IF e \in Connected THEN Cardinality(Connected) ELSE Cardinality(Connected) + 1
      /\ IsFiniteSet(Connected \cup {e})
  BY ConnectedFinite, FS_AddElement
<1> QED BY <1>1, ConnectedFinite

----------------------------------------------------------------------------
(* Type correctness *)

\* The query an object runs has an identifier.
QueryHasId == \A e \in Conns : esql[e].current = "query" => esql[e].curId \in Ids

TypeInv == TypeOK /\ QueryHasId /\ PoolCovers

LEMMA TypeInit == Init => TypeInv
<1> SUFFICES ASSUME Init PROVE TypeInv
  OBVIOUS
<1>1. NewEsql \in EsqlRec
  BY FreshTyped, ConstantsTyped DEF NewEsql, EsqlRec, Currents, Handlers, NoData
<1>2. TypeOK
  BY <1>1, ConstantsTyped DEF Init, TypeOK, Idle, Points, NoData
<1>3. QueryHasId
  BY DEF Init, QueryHasId, NewEsql
<1>4. Connected = {}
  BY DEF Init, Connected, NewEsql
<1>5. PoolCovers
  BY <1>4, FS_EmptySet DEF Init, PoolCovers
<1> QED BY <1>2, <1>3, <1>5 DEF TypeInv

\* A step that connects nobody and leaves the pool alone keeps the count covering.
LEMMA CoversStill ==
  ASSUME PoolCovers, pool' = pool, Connected' \subseteq Connected, pool.count \in Nat
  PROVE  PoolCovers'
<1>1. Cardinality(Connected') <= Cardinality(Connected) /\ Cardinality(Connected') \in Nat
  BY ConnectedFinite, FS_Subset, FS_CardinalityType
<1>2. Cardinality(Connected)' = Cardinality(Connected')
  OBVIOUS
<1> QED BY <1>1, <1>2, ConnectedFinite DEF PoolCovers

LEMMA SpendTyped ==
  ASSUME TypeOK, NEW kind \in BudgetKinds, Can(kind), Spend(kind)
  PROVE  budget' \in [BudgetKinds -> Nat]
<1>1. budget[kind] \in Nat /\ budget[kind] - 1 \in Nat
  BY DEF TypeOK, Can
<1> QED BY <1>1 DEF TypeOK, Spend

LEMMA TypeConnect == TypeInv /\ Connect => TypeInv'
<1> SUFFICES ASSUME TypeInv, Connect PROVE TypeInv'
  OBVIOUS
<1> DEFINE ready(e) == [esql[e] EXCEPT !.m = Setup(@)]
           dialled(e) == IF esql[e].connected THEN {esql[e]}
                         ELSE Dialled(ready(e)) \cup NotDialled(ready(e))
<1>1. PICK next \in [Conns -> UNION {dialled(e) : e \in Conns}] :
        (\A e \in Conns : next[e] \in dialled(e)) /\ esql' = next
  BY DEF Connect
<1>2. ASSUME NEW e \in Conns
      PROVE  /\ esql'[e] \in EsqlRec
             /\ esql'[e].connected = esql[e].connected
             /\ esql'[e].current = "query" => esql'[e].curId \in Ids
  <2>1. esql[e] \in EsqlRec
    BY DEF TypeInv, TypeOK
  <2>2. ready(e) \in EsqlRec
    BY <2>1, CommandsTyped, ClientTyped DEF EsqlRec
  <2>3. CASE esql[e].connected
    BY <1>1, <2>1, <2>3 DEF TypeInv, QueryHasId
  <2>4. CASE ~esql[e].connected /\ esql'[e] \in Dialled(ready(e))
    <3>1. esql'[e] \in EsqlRec
      BY <2>2, <2>4, DialTyped
    <3>2. esql'[e].current = "init" /\ esql'[e].connected = ready(e).connected
      BY <2>2, <2>4, DialKeeps
    <3>3. ready(e).connected = esql[e].connected
      BY <2>1 DEF EsqlRec
    <3> QED BY <3>1, <3>2, <3>3
  <2>5. CASE ~esql[e].connected /\ esql'[e] \in NotDialled(ready(e))
    <3>1. esql'[e] \in EsqlRec
      BY <2>2, <2>5, DialTyped
    <3>2. /\ esql'[e].current = esql[e].current /\ esql'[e].curId = esql[e].curId
          /\ esql'[e].connected = esql[e].connected
      BY <2>1, <2>2, <2>5, DialKeeps DEF EsqlRec
    <3> QED BY <3>1, <3>2 DEF TypeInv, QueryHasId
  <2> QED BY <1>1, <2>3, <2>4, <2>5
<1>3. esql' \in [Conns -> EsqlRec]
  BY <1>1, <1>2
<1>4. TypeOK'
  BY <1>3, SpendTyped DEF TypeInv, TypeOK, Connect, BudgetKinds, history, outcomes
<1>5. QueryHasId'
  BY <1>2 DEF QueryHasId
<1>6. PoolCovers'
  <2>1. Connected' = Connected
    BY <1>2 DEF Connected
  <2> QED BY <2>1, CoversStill DEF TypeInv, TypeOK, Connect
<1> QED BY <1>4, <1>5, <1>6 DEF TypeInv

\* What the program can have been told.
Tellings == [what : {"nothing", "connect", "disconnect"}, again : BOOLEAN]

LEMMA ToldTyped ==
  ASSUME TypeOK
  PROVE  told \in Tellings /\ Announced("connect") \in Tellings /\ Announced("disconnect") \in Tellings
  BY DEF TypeOK, Tellings, Announced

LEMMA TypeDisconnect == TypeInv /\ Disconnect => TypeInv'
<1> SUFFICES ASSUME TypeInv, Disconnect PROVE TypeInv'
  OBVIOUS
<1> DEFINE S == IF Pooled THEN {e \in Conns : esql[e].connected} ELSE Conns
<1>1. /\ esql' = [e \in Conns |-> IF e \in S THEN Closed(esql[e]) ELSE esql[e]]
      /\ pool' = [PoolWithout(S) EXCEPT !.connected = FALSE]
      /\ run' = [run EXCEPT !.hup = HupAfterClosing(S)]
      /\ told' = IF TellsDisconnect(S) THEN Announced("disconnect") ELSE told
      /\ Can("disconnect") /\ Spend("disconnect")
      /\ UNCHANGED <<database, reconnect, lastId, hash, callbacks, results, outcomes, asked>>
  BY DEF Disconnect
<1>2. ASSUME NEW e \in Conns
      PROVE  /\ esql'[e] \in EsqlRec
             /\ esql'[e].current = esql[e].current /\ esql'[e].curId = esql[e].curId
             /\ esql'[e].connected = (esql[e].connected /\ e \notin S)
  <2>1. esql[e] \in EsqlRec
    BY DEF TypeInv, TypeOK
  <2> QED BY <1>1, <2>1, ClosedTyped DEF Closed, EsqlRec
<1>3. S \in SUBSET Conns
  OBVIOUS
<1> HIDE DEF S
<1>4. pool' \in [connected : BOOLEAN, count : Nat]
  <2>1. CASE Pooled
    <3>1. PoolWithout(S).count \in Nat
      <4>1. pool.count \in Nat /\ pool.count >= Cardinality(Connected)
        BY <2>1 DEF TypeInv, TypeOK, PoolCovers
      <4>2. /\ PoolWithout(S).count = pool.count - Cardinality(Connected) + Cardinality(Connected \ S)
            /\ Cardinality(Connected \ S) \in Nat
        BY <1>3, <2>1, CountWithout DEF TypeInv
      <4> QED BY <4>1, <4>2, ConnectedFinite
    <3>2. PoolWithout(S) = [connected |-> pool.connected, count |-> PoolWithout(S).count]
      BY <1>3, <2>1, CountWithout DEF TypeInv
    <3> QED BY <1>1, <3>1, <3>2
  <2>2. CASE ~Pooled
    BY <1>1, <2>2 DEF TypeInv, TypeOK, PoolWithout
  <2> QED BY <2>1, <2>2
<1>5. TypeOK'
  <2>1. esql' \in [Conns -> EsqlRec]
    BY <1>1, <1>2
  <2>2. run' \in [at : Points, e : Conns, hup : BOOLEAN, h : {"fdh", "stray"}]
    BY <1>1 DEF TypeInv, TypeOK, HupAfterClosing
  <2>3. told' \in Tellings
    BY <1>1, ToldTyped DEF TypeInv
  <2> QED BY <1>1, <1>4, <2>1, <2>2, <2>3, SpendTyped DEF TypeInv, TypeOK, BudgetKinds, outcomes, Tellings
<1>6. QueryHasId'
  BY <1>2 DEF TypeInv, QueryHasId
<1>7. PoolCovers'
  <2> SUFFICES ASSUME Pooled PROVE pool'.count >= Cardinality(Connected')
    BY DEF PoolCovers
  <2>1. Connected' = Connected \ S
    BY <1>2 DEF Connected
  <2>2. pool'.count = PoolWithout(S).count
    BY <1>1, <1>3, CountWithout DEF TypeInv
  <2>3. PoolWithout(S).count >= Cardinality(Connected \ S)
    BY <1>3, CountWithout, ConnectedFinite DEF TypeInv, TypeOK, PoolCovers
  <2> QED BY <2>1, <2>2, <2>3
<1> QED BY <1>5, <1>6, <1>7 DEF TypeInv

\* A step that leaves the pool and everybody's connection alone, and types the
\* objects, keeps everything but the types of the other variables.
LEMMA ObjectsStep ==
  ASSUME TypeInv, TypeOK', pool' = pool,
         \A e \in Conns : /\ esql'[e].connected = esql[e].connected
                         /\ \/ esql'[e].current # "query"
                            \/ esql'[e].curId \in Ids
                            \/ esql'[e].current = esql[e].current /\ esql'[e].curId = esql[e].curId
  PROVE  TypeInv'
<1>1. QueryHasId'
  BY DEF TypeInv, QueryHasId
<1>2. Connected' = Connected
  BY DEF Connected
<1>3. PoolCovers'
  BY <1>2, CoversStill DEF TypeInv, TypeOK
<1> QED BY <1>1, <1>3 DEF TypeInv

LEMMA TypeDatabaseSet == \A d \in DbNames : TypeInv /\ DatabaseSet(d) => TypeInv'
<1> SUFFICES ASSUME NEW d \in DbNames, TypeInv, DatabaseSet(d) PROVE TypeInv'
  OBVIOUS
<1>1. ASSUME NEW e \in Conns
      PROVE  /\ esql'[e] \in EsqlRec
             /\ esql'[e].connected = esql[e].connected
             /\ \/ esql'[e].current # "query"
                \/ esql'[e].current = esql[e].current /\ esql'[e].curId = esql[e].curId
  <2>1. esql[e] \in EsqlRec
    BY DEF TypeInv, TypeOK
  <2>2. esql'[e] = DatabaseSwitched(esql[e], d)
    BY DEF DatabaseSet
  <2> QED BY <2>1, <2>2, DatabaseSwitchedTyped, SwitchKeeps
<1>2. TypeOK'
  <2>1. esql' \in [Conns -> EsqlRec]
    BY <1>1 DEF DatabaseSet
  <2> QED BY <2>1, SpendTyped DEF TypeInv, TypeOK, DatabaseSet, BudgetKinds, outcomes
<1> QED BY <1>1, <1>2, ObjectsStep DEF DatabaseSet

LEMMA TypeTimeoutSet == \A on \in BOOLEAN : TypeInv /\ TimeoutSet(on) => TypeInv'
<1> SUFFICES ASSUME NEW on \in BOOLEAN, TypeInv, TimeoutSet(on) PROVE TypeInv'
  OBVIOUS
<1>1. ASSUME NEW e \in Conns
      PROVE  /\ esql'[e] \in EsqlRec
             /\ esql'[e].connected = esql[e].connected
             /\ esql'[e].current = esql[e].current /\ esql'[e].curId = esql[e].curId
  <2>1. esql[e] \in EsqlRec
    BY DEF TypeInv, TypeOK
  <2> QED BY <2>1 DEF TimeoutSet, EsqlRec
<1>2. TypeOK'
  <2>1. esql' \in [Conns -> EsqlRec]
    BY <1>1 DEF TimeoutSet
  <2> QED BY <2>1, SpendTyped DEF TypeInv, TypeOK, TimeoutSet, BudgetKinds, history, outcomes
<1> QED BY <1>1, <1>2, ObjectsStep DEF TimeoutSet

LEMMA TypeReconnectSet == \A on \in BOOLEAN : TypeInv /\ ReconnectSet(on) => TypeInv'
<1> SUFFICES ASSUME NEW on \in BOOLEAN, TypeInv, ReconnectSet(on) PROVE TypeInv'
  OBVIOUS
<1>1. TypeOK'
  BY SpendTyped DEF TypeInv, TypeOK, ReconnectSet, BudgetKinds, history, outcomes
<1> QED BY <1>1, ObjectsStep DEF ReconnectSet

LEMMA TypeQueryCallbackSet == \A id \in Ids : TypeInv /\ QueryCallbackSet(id) => TypeInv'
<1> SUFFICES ASSUME NEW id \in Ids, TypeInv, QueryCallbackSet(id) PROVE TypeInv'
  OBVIOUS
<1>1. TypeOK'
  BY SpendTyped DEF TypeInv, TypeOK, QueryCallbackSet, BudgetKinds, history, outcomes
<1> QED BY <1>1, ObjectsStep DEF QueryCallbackSet

\* Most steps replace one object.
LEMMA OneObject ==
  ASSUME TypeInv, TypeOK', pool' = pool, NEW e \in Conns, NEW r,
         esql' = [esql EXCEPT ![e] = r],
         r.connected = esql[e].connected,
         \/ r.current # "query"
         \/ r.curId \in Ids
         \/ r.current = esql[e].current /\ r.curId = esql[e].curId
  PROVE  TypeInv'
<1>1. ASSUME NEW f \in Conns
      PROVE  /\ esql'[f].connected = esql[f].connected
             /\ \/ esql'[f].current # "query"
                \/ esql'[f].curId \in Ids
                \/ esql'[f].current = esql[f].current /\ esql'[f].curId = esql[f].curId
  BY DEF TypeInv, TypeOK
<1> QED BY <1>1, ObjectsStep

LEMMA ObjectTyped == ASSUME TypeOK, NEW e \in Conns PROVE esql[e] \in EsqlRec /\ esql[e].m \in MYSAC
  BY DEF TypeOK, EsqlRec

LEMMA ObjectReplaced ==
  ASSUME TypeOK, NEW e \in Conns, NEW r \in EsqlRec
  PROVE  [esql EXCEPT ![e] = r] \in [Conns -> EsqlRec]
  BY DEF TypeOK

LEMMA TypeQueryStart == \A t \in Conns : TypeInv /\ QueryStart(t) => TypeInv'
<1> SUFFICES ASSUME NEW t \in Conns, TypeInv, QueryStart(t) PROVE TypeInv'
  OBVIOUS
<1> DEFINE id == lastId + 1
<1>1. id \in Ids
  BY DEF TypeInv, TypeOK, QueryStart, Issue, Ids
<1>2. esql[t] \in EsqlRec
  BY ObjectTyped DEF TypeInv
<1>3. Started(esql[t], id) \in EsqlRec
  BY <1>1, <1>2, StartedTyped
<1>4. esql' = [esql EXCEPT ![t] = Started(esql[t], id)]
  BY DEF QueryStart, Issue
<1>5. TypeOK'
  <2>1. esql' \in [Conns -> EsqlRec]
    BY <1>3, <1>4, ObjectReplaced DEF TypeInv
  <2> QED BY <1>1, <2>1 DEF TypeInv, TypeOK, QueryStart, Issue
<1>6. Started(esql[t], id).connected = esql[t].connected /\ Started(esql[t], id).curId = id
  BY <1>2 DEF Started, EsqlRec
<1> QED BY <1>1, <1>4, <1>5, <1>6, OneObject DEF QueryStart, Issue

LEMMA TypeQueryQueue == \A t \in Conns : TypeInv /\ QueryQueue(t) => TypeInv'
<1> SUFFICES ASSUME NEW t \in Conns, TypeInv, QueryQueue(t) PROVE TypeInv'
  OBVIOUS
<1> DEFINE id == lastId + 1
           r == Enqueued(esql[t], [fn |-> "query", id |-> id, db |-> NoDb])
<1>1. id \in Ids
  BY DEF TypeInv, TypeOK, QueryQueue, Issue, Ids
<1>2. esql[t] \in EsqlRec
  BY ObjectTyped DEF TypeInv
<1>3. r \in EsqlRec
  BY <1>1, <1>2, CallTyped, EnqueuedTyped
<1>4. esql' = [esql EXCEPT ![t] = r]
  BY DEF QueryQueue, Issue
<1>5. /\ r.connected = esql[t].connected
      /\ r.current = esql[t].current /\ r.curId = esql[t].curId
  BY <1>2 DEF Enqueued, EsqlRec
<1> HIDE DEF r
<1>6. TypeOK'
  <2>1. esql' \in [Conns -> EsqlRec]
    BY <1>3, <1>4, ObjectReplaced DEF TypeInv
  <2> QED BY <1>1, <2>1, ConstantsTyped DEF TypeInv, TypeOK, QueryQueue, Issue
<1> QED BY <1>4, <1>5, <1>6, OneObject DEF QueryQueue, Issue

LEMMA TypeQueryRefused == \A t \in Conns : TypeInv /\ QueryRefused(t) => TypeInv'
<1> SUFFICES ASSUME NEW t \in Conns, TypeInv, QueryRefused(t) PROVE TypeInv'
  OBVIOUS
<1>1. esql[t] \in EsqlRec /\ esql[t].m \in MYSAC
  BY ObjectTyped DEF TypeInv
<1>2. PICK m \in MYSAC : esql' = [esql EXCEPT ![t] = [esql[t] EXCEPT !.m = m]]
  BY <1>1, CommandsTyped DEF QueryRefused
<1>3. [esql[t] EXCEPT !.m = m] \in EsqlRec
  BY <1>1, ClientTyped
<1>4. TypeOK'
  <2>1. esql' \in [Conns -> EsqlRec]
    BY <1>2, <1>3, ObjectReplaced DEF TypeInv
  <2>2. budget' \in [BudgetKinds -> Nat]
    BY SpendTyped DEF QueryRefused, TypeInv, TypeOK, BudgetKinds
  <2> QED BY <2>1, <2>2 DEF TypeInv, TypeOK, QueryRefused, history, outcomes
<1>5. LET r == [esql[t] EXCEPT !.m = m]
      IN  /\ r.connected = esql[t].connected
          /\ r.current = esql[t].current /\ r.curId = esql[t].curId
  BY <1>1 DEF EsqlRec
<1> QED BY <1>2, <1>4, <1>5, OneObject DEF QueryRefused

LEMMA TypeProgram == TypeInv /\ Program => TypeInv'
  BY TypeConnect, TypeDisconnect, TypeDatabaseSet, TypeTimeoutSet, TypeReconnectSet,
     TypeQueryCallbackSet,
     TypeQueryStart, TypeQueryQueue, TypeQueryRefused DEF Program

\* (De)activating a handler touches nothing but the handlers.
LEMMA ActiveKeeps ==
  ASSUME NEW s \in EsqlRec, NEW h, NEW state
  PROVE  LET r == Active(s, h, state)
         IN /\ r.connected = s.connected /\ r.rtimers = s.rtimers
            /\ r.current = s.current /\ r.curId = s.curId
  BY DEF Active, EsqlRec

\* Disarming e->fdh touches nothing but that handler.
LEMMA DisarmKeeps ==
  ASSUME NEW s \in EsqlRec
  PROVE  LET r == Active(s, "fdh", "off")
         IN  /\ r \in EsqlRec
             /\ r.fdh = IF s.fdh = "none" THEN "none" ELSE "off"
             /\ r.stray = s.stray /\ r.connected = s.connected /\ r.current = s.current
             /\ r.queue = s.queue /\ r.curId = s.curId /\ r.curData = s.curData
             /\ r.job = s.job /\ r.timeout = s.timeout /\ r.rtimers = s.rtimers /\ r.m = s.m
  BY DEF Active, EsqlRec, Handlers

LEMMA TypeFdReady == \A e \in Conns : TypeInv /\ FdReady(e) => TypeInv'
<1> SUFFICES ASSUME NEW e \in Conns, TypeInv, FdReady(e) PROVE TypeInv'
  OBVIOUS
<1>1. PICK h \in {"fdh", "stray"}, hup \in BOOLEAN :
        /\ esql' = [esql EXCEPT ![e] = Active(@, h, "off")]
        /\ run' = [at |-> "io", e |-> e, hup |-> hup, h |-> h]
        /\ IF hup THEN Can("fault") /\ Spend("fault") ELSE UNCHANGED budget
        /\ UNCHANGED <<pool, database, reconnect, lastId, hash, callbacks, results, history>>
  BY DEF FdReady
<1> DEFINE r == Active(esql[e], h, "off")
<1>2. esql[e] \in EsqlRec
  BY ObjectTyped DEF TypeInv
<1>3. r \in EsqlRec
  BY <1>2, ActiveTyped DEF Handlers
<1>4. esql' = [esql EXCEPT ![e] = r]
  BY <1>1
<1>5. r.connected = esql[e].connected /\ r.current = esql[e].current /\ r.curId = esql[e].curId
  BY <1>2, ActiveKeeps
<1> HIDE DEF r
<1>6. TypeOK'
  <2>1. esql' \in [Conns -> EsqlRec]
    BY <1>3, <1>4, ObjectReplaced DEF TypeInv
  <2>2. budget' \in [BudgetKinds -> Nat]
    BY <1>1, SpendTyped DEF TypeInv, TypeOK, BudgetKinds
  <2> QED BY <1>1, <2>1, <2>2 DEF TypeInv, TypeOK, Points, history, outcomes
<1> QED BY <1>1, <1>4, <1>5, <1>6, OneObject

LEMMA TypeRunJob == \A e \in Conns : TypeInv /\ RunJob(e) => TypeInv'
<1> SUFFICES ASSUME NEW e \in Conns, TypeInv, RunJob(e) PROVE TypeInv'
  OBVIOUS
<1> DEFINE s == [esql[e] EXCEPT !.job = FALSE]
           r == Active(s, "fdh", "off")
<1>1. esql[e] \in EsqlRec
  BY ObjectTyped DEF TypeInv
<1>2. s \in EsqlRec /\ s.connected = esql[e].connected
      /\ s.current = esql[e].current /\ s.curId = esql[e].curId
  BY <1>1 DEF EsqlRec
<1>3. esql' = [esql EXCEPT ![e] = r]
  BY DEF RunJob
<1> HIDE DEF s
<1>4. r \in EsqlRec
  BY <1>2, ActiveTyped DEF Handlers
<1>5. r.connected = esql[e].connected /\ r.current = esql[e].current /\ r.curId = esql[e].curId
  BY <1>2, ActiveKeeps
<1> HIDE DEF r
<1>6. TypeOK'
  <2>1. esql' \in [Conns -> EsqlRec]
    BY <1>3, <1>4, ObjectReplaced DEF TypeInv
  <2> QED BY <2>1 DEF RunJob, TypeInv, TypeOK, Points, history, outcomes
<1> QED BY <1>3, <1>5, <1>6, OneObject DEF RunJob

\* Closing an object takes it off the pool's count if it was connected.
LEMMA TypeCloseAndRetry ==
  ASSUME NEW e \in Conns, NEW s \in EsqlRec, TypeInv, CloseAndRetry(e, s),
         s.current = esql[e].current, s.curId = esql[e].curId,
         run' \in [at : Points, e : Conns, hup : BOOLEAN, h : {"fdh", "stray"}]
  PROVE  TypeInv'
<1> DEFINE r == [Closed(s) EXCEPT !.rtimers = IF reconnect = "on" THEN @ + 1 ELSE @]
<1>1. esql' = [esql EXCEPT ![e] = r] /\ pool' = PoolWithout({e})
  BY DEF CloseAndRetry
<1>2. /\ r \in EsqlRec /\ ~r.connected
      /\ r.current = esql[e].current /\ r.curId = esql[e].curId
  <2>1. Closed(s) \in EsqlRec
    BY ClosedTyped
  <2>2. ASSUME NEW c \in EsqlRec, NEW n \in Nat
        PROVE  LET d == [c EXCEPT !.rtimers = n]
               IN  /\ d \in EsqlRec /\ d.connected = c.connected
                   /\ d.current = c.current /\ d.curId = c.curId
    BY DEF EsqlRec
  <2>3. (IF reconnect = "on" THEN Closed(s).rtimers + 1 ELSE Closed(s).rtimers) \in Nat
    BY <2>1 DEF EsqlRec
  <2>4. r \in EsqlRec /\ r.connected = Closed(s).connected
        /\ r.current = Closed(s).current /\ r.curId = Closed(s).curId
    BY <2>1, <2>2, <2>3
  <2> QED BY <2>4 DEF Closed, EsqlRec
<1> HIDE DEF r
<1>3. Connected' = Connected \ {e}
  BY <1>1, <1>2 DEF Connected, TypeInv, TypeOK
<1>4. /\ pool' \in [connected : BOOLEAN, count : Nat]
      /\ Pooled => pool'.count >= Cardinality(Connected \ {e})
  <2>1. CASE Pooled
    <3>1. /\ PoolWithout({e}).count = pool.count - Cardinality(Connected) + Cardinality(Connected \ {e})
          /\ Cardinality(Connected \ {e}) \in Nat
          /\ PoolWithout({e}) = [connected |-> pool.connected, count |-> PoolWithout({e}).count]
      BY <2>1, CountWithout DEF TypeInv
    <3>2. pool.count \in Nat /\ pool.connected \in BOOLEAN /\ pool.count >= Cardinality(Connected)
      BY <2>1 DEF TypeInv, TypeOK, PoolCovers
    <3>3. PoolWithout({e}).count \in Nat /\ PoolWithout({e}).count >= Cardinality(Connected \ {e})
      BY <3>1, <3>2, ConnectedFinite
    <3> QED BY <1>1, <3>1, <3>2, <3>3
  <2>2. CASE ~Pooled
    BY <1>1, <2>2 DEF TypeInv, TypeOK, PoolWithout
  <2> QED BY <2>1, <2>2
<1>5. TypeOK'
  <2>1. esql' \in [Conns -> EsqlRec]
    BY <1>1, <1>2, ObjectReplaced DEF TypeInv
  <2>2. told' \in Tellings
    BY ToldTyped DEF CloseAndRetry, TypeInv
  <2> QED BY <2>1, <2>2, <1>4 DEF CloseAndRetry, TypeInv, TypeOK, outcomes, Tellings
<1>6. QueryHasId'
  BY <1>1, <1>2 DEF TypeInv, TypeOK, QueryHasId
<1>7. PoolCovers'
  BY <1>3, <1>4 DEF PoolCovers
<1> QED BY <1>5, <1>6, <1>7 DEF TypeInv

LEMMA TypeTimeoutFires == \A e \in Conns : TypeInv /\ TimeoutFires(e) => TypeInv'
<1> SUFFICES ASSUME NEW e \in Conns, TypeInv, TimeoutFires(e) PROVE TypeInv'
  OBVIOUS
<1> DEFINE s == [esql[e] EXCEPT !.timeout = FALSE]
<1>1. s \in EsqlRec /\ s.current = esql[e].current /\ s.curId = esql[e].curId
  BY ObjectTyped DEF TypeInv, EsqlRec
<1> QED BY <1>1, TypeCloseAndRetry DEF TimeoutFires, TypeInv, TypeOK

LEMMA TypeReconnectFires == \A e \in Conns : TypeInv /\ ReconnectFires(e) => TypeInv'
<1> SUFFICES ASSUME NEW e \in Conns, TypeInv, ReconnectFires(e) PROVE TypeInv'
  OBVIOUS
<1> DEFINE s == [esql[e] EXCEPT !.rtimers = @ - 1]
<1>1. esql[e] \in EsqlRec
  BY ObjectTyped DEF TypeInv
<1>2. /\ s \in EsqlRec /\ s.connected = esql[e].connected
      /\ s.current = esql[e].current /\ s.curId = esql[e].curId
  <2>1. esql[e].rtimers - 1 \in Nat
    BY <1>1 DEF ReconnectFires, EsqlRec
  <2> QED BY <1>1, <2>1 DEF EsqlRec
<1>3. PICK r, t :
        /\ r \in Dialled(s) \cup NotDialled(s)
        /\ esql' = [esql EXCEPT ![e] = t]
        /\ \/ r \in Dialled(s) /\ t = IF database = NoDb THEN r ELSE DatabaseSwitched(r, database)
           \/ r \in NotDialled(s) /\ t = r
        /\ told' \in {told, Announced("disconnect")}
        /\ UNCHANGED <<pool, database, reconnect, lastId, hash, callbacks, results, run, budget, outcomes, asked>>
  BY DEF ReconnectFires
<1> HIDE DEF s
<1>4. /\ t \in EsqlRec /\ t.connected = esql[e].connected
      /\ \/ t.current # "query"
         \/ t.current = esql[e].current /\ t.curId = esql[e].curId
  <2>1. r \in EsqlRec
    BY <1>2, <1>3, DialTyped
  <2>2. CASE r \in Dialled(s)
    <3>1. r.current = "init" /\ r.connected = s.connected
      BY <1>2, <2>2, DialKeeps
    <3>2. CASE t = r
      BY <1>2, <2>1, <3>1, <3>2
    <3>3. CASE database \in DbNames /\ t = DatabaseSwitched(r, database)
      BY <1>2, <2>1, <3>1, <3>3, SwitchKeeps, DatabaseSwitchedTyped
    <3> QED BY <1>3, <2>1, <2>2, <3>1, <3>2, <3>3 DEF TypeInv, TypeOK, NotDialled
  <2>3. CASE r \in NotDialled(s) /\ t = r
    BY <1>2, <2>1, <2>3, DialKeeps
  <2> QED BY <1>3, <2>2, <2>3
<1>5. TypeOK'
  <2>1. esql' \in [Conns -> EsqlRec]
    BY <1>3, <1>4, ObjectReplaced DEF TypeInv
  <2>2. told' \in Tellings
    BY <1>3, ToldTyped DEF TypeInv
  <2> QED BY <1>3, <2>1, <2>2 DEF TypeInv, TypeOK, outcomes, Tellings
<1> QED BY <1>3, <1>4, <1>5, OneObject

\* A result returned or kept changes no object, but for the client's error.
LEMMA ErrorCleared ==
  ASSUME TypeInv, FreesError \/ UNCHANGED esql
  PROVE  /\ esql' \in [Conns -> EsqlRec]
         /\ \A e \in Conns : /\ esql'[e].connected = esql[e].connected
                             /\ esql'[e].current = esql[e].current
                             /\ esql'[e].curId = esql[e].curId
<1>0. CASE UNCHANGED esql
  BY <1>0 DEF TypeInv, TypeOK
<1> SUFFICES ASSUME FreesError
             PROVE  /\ esql' \in [Conns -> EsqlRec]
                    /\ \A e \in Conns : /\ esql'[e].connected = esql[e].connected
                                        /\ esql'[e].current = esql[e].current
                                        /\ esql'[e].curId = esql[e].curId
  BY <1>0
<1>1. 0 \in Conns
  BY ConstantsTyped
<1>2. esql[0] \in EsqlRec /\ ClearError(esql[0].m) \in MYSAC
  BY <1>1, ObjectTyped, CommandsTyped DEF TypeInv
<1> DEFINE r == [esql[0] EXCEPT !.m = ClearError(@)]
<1>3. r \in EsqlRec
  BY <1>2, ClientTyped
<1>4. r.connected = esql[0].connected /\ r.current = esql[0].current /\ r.curId = esql[0].curId
  BY <1>2 DEF EsqlRec
<1>5. esql' = [esql EXCEPT ![0] = r]
  BY DEF FreesError
<1> HIDE DEF r
<1> QED BY <1>1, <1>3, <1>4, <1>5 DEF TypeInv, TypeOK

\* A result the library returns is freed or kept.
LEMMA ReturnedTyped ==
  ASSUME TypeInv, NEW rest \in [queued : Nat, kept : Nat], ResultReturned(rest)
  PROVE  /\ results' \in [queued : Nat, kept : Nat]
         /\ budget' \in [BudgetKinds -> Nat]
         /\ FreesError \/ UNCHANGED esql
<1>1. CASE FreesError /\ results' = rest /\ UNCHANGED budget
  BY <1>1 DEF TypeInv, TypeOK
<1>2. CASE Can("keep") /\ Spend("keep") /\ results' = [rest EXCEPT !.kept = @ + 1] /\ UNCHANGED esql
  <2>1. budget' \in [BudgetKinds -> Nat]
    BY <1>2, SpendTyped DEF TypeInv, TypeOK, BudgetKinds
  <2> QED BY <1>2, <2>1
<1> QED BY <1>1, <1>2 DEF ResultReturned

LEMMA TypeResultEvent == TypeInv /\ (ResultEvent \/ ResultUnref) => TypeInv'
<1> SUFFICES ASSUME TypeInv, ResultEvent \/ ResultUnref PROVE TypeInv'
  OBVIOUS
<1>1. /\ results' \in [queued : Nat, kept : Nat]
      /\ budget' \in [BudgetKinds -> Nat]
      /\ FreesError \/ UNCHANGED esql
  <2>1. CASE ResultEvent
    <3>1. [results EXCEPT !.queued = @ - 1] \in [queued : Nat, kept : Nat]
      BY <2>1 DEF ResultEvent, TypeInv, TypeOK
    <3>2. ResultReturned([results EXCEPT !.queued = @ - 1])
      BY <2>1 DEF ResultEvent
    <3> QED BY <3>1, <3>2, ReturnedTyped
  <2>2. CASE ResultUnref
    <3>1. /\ results \in [queued : Nat, kept : Nat] /\ results.kept > 0
          /\ results' = [results EXCEPT !.kept = @ - 1]
      BY <2>2 DEF ResultUnref, TypeInv, TypeOK
    <3>2. results' \in [queued : Nat, kept : Nat]
      BY <3>1
    <3> QED BY <2>2, <3>2 DEF ResultUnref, TypeInv, TypeOK
  <2> QED BY <2>1, <2>2
<1>2. /\ esql' \in [Conns -> EsqlRec]
      /\ \A e \in Conns : /\ esql'[e].connected = esql[e].connected
                          /\ esql'[e].current = esql[e].current
                          /\ esql'[e].curId = esql[e].curId
  BY <1>1, ErrorCleared
<1>3. UNCHANGED <<pool, database, reconnect, lastId, hash, callbacks, run, history>>
  BY DEF ResultEvent, ResultUnref
<1>4. TypeOK'
  BY <1>1, <1>2, <1>3 DEF TypeInv, TypeOK, history, outcomes
<1> QED BY <1>2, <1>3, <1>4, ObjectsStep

LEMMA GotoTyped ==
  ASSUME TypeOK, NEW point \in Points, Goto(point)
  PROVE  run' \in [at : Points, e : Conns, hup : BOOLEAN, h : {"fdh", "stray"}]
  BY DEF TypeOK, Goto

LEMMA IdleTyped == Idle \in [at : Points, e : Conns, hup : BOOLEAN, h : {"fdh", "stray"}]
  BY ConstantsTyped DEF Idle, Points

LEMMA TypeIoWait == \A e \in Conns : TypeInv /\ IoWait(e) => TypeInv'
<1> SUFFICES ASSUME NEW e \in Conns, TypeInv, IoWait(e) PROVE TypeInv'
  OBVIOUS
<1>1. esql[e] \in EsqlRec /\ esql[e].m \in MYSAC
  BY ObjectTyped DEF TypeInv
<1>2. PICK m \in Waiting(esql[e].m) :
        esql' = [esql EXCEPT ![e] = Active([@ EXCEPT !.m = m], run.h, "armed")]
  BY DEF IoWait
<1> DEFINE s == [esql[e] EXCEPT !.m = m]
           r == Active(s, run.h, "armed")
<1>3. s \in EsqlRec /\ s.connected = esql[e].connected
      /\ s.current = esql[e].current /\ s.curId = esql[e].curId
  <2>1. m \in MYSAC
    BY <1>1, <1>2, IoTyped
  <2> QED BY <1>1, <2>1 DEF EsqlRec
<1>4. esql' = [esql EXCEPT ![e] = r]
  BY <1>2
<1> HIDE DEF s
<1>5. r \in EsqlRec
  BY <1>3, ActiveTyped DEF Handlers
<1>6. r.connected = esql[e].connected /\ r.current = esql[e].current /\ r.curId = esql[e].curId
  BY <1>3, ActiveKeeps
<1> HIDE DEF r
<1>7. TypeOK'
  <2>1. esql' \in [Conns -> EsqlRec]
    BY <1>4, <1>5, ObjectReplaced DEF TypeInv
  <2> QED BY <2>1, IdleTyped DEF IoWait, TypeInv, TypeOK, history, outcomes
<1> QED BY <1>4, <1>6, <1>7, OneObject DEF IoWait

\* io changes the client's state and goes on to the next function of the chain.
LEMMA ClientStep ==
  ASSUME TypeInv, NEW e \in Conns, NEW m \in MYSAC, NEW point \in Points, Goto(point),
         esql' = [esql EXCEPT ![e].m = m], budget' \in [BudgetKinds -> Nat],
         UNCHANGED <<pool, database, reconnect, lastId, hash, callbacks, results, history>>
  PROVE  TypeInv'
<1> DEFINE r == [esql[e] EXCEPT !.m = m]
<1>1. esql[e] \in EsqlRec
  BY ObjectTyped DEF TypeInv
<1>2. r \in EsqlRec /\ r.connected = esql[e].connected
      /\ r.current = esql[e].current /\ r.curId = esql[e].curId
  BY <1>1 DEF EsqlRec
<1>3. esql' = [esql EXCEPT ![e] = r]
  OBVIOUS
<1> HIDE DEF r
<1>4. TypeOK'
  <2>1. esql' \in [Conns -> EsqlRec]
    BY <1>2, <1>3, ObjectReplaced DEF TypeInv
  <2> QED BY <2>1, GotoTyped DEF TypeInv, TypeOK, history, outcomes
<1> QED BY <1>2, <1>3, <1>4, OneObject

LEMMA TypeIoDone == \A e \in Conns : TypeInv /\ IoDone(e) => TypeInv'
<1> SUFFICES ASSUME NEW e \in Conns, TypeInv, IoDone(e) PROVE TypeInv'
  OBVIOUS
<1>1. PICK m \in Done(esql[e].m) : esql' = [esql EXCEPT ![e].m = m]
  BY DEF IoDone
<1>2. m \in MYSAC
  BY <1>1, ObjectTyped, IoTyped DEF TypeInv
<1> QED BY <1>1, <1>2, ClientStep DEF IoDone, Points, TypeInv, TypeOK

LEMMA TypeIoFail == \A e \in Conns : TypeInv /\ IoFail(e) => TypeInv'
<1> SUFFICES ASSUME NEW e \in Conns, TypeInv, IoFail(e) PROVE TypeInv'
  OBVIOUS
<1>1. PICK m \in Failing(esql[e].m) : esql' = [esql EXCEPT ![e].m = m]
  BY DEF IoFail
<1>2. m \in MYSAC
  BY <1>1, ObjectTyped, IoTyped DEF TypeInv
<1>3. budget' \in [BudgetKinds -> Nat]
  BY SpendTyped DEF IoFail, TypeInv, TypeOK, BudgetKinds
<1> QED BY <1>1, <1>2, <1>3, ClientStep DEF IoFail, Points

LEMMA TypeCompleteInit == \A e \in Conns : TypeInv /\ CompleteInit(e) => TypeInv'
<1> SUFFICES ASSUME NEW e \in Conns, TypeInv, CompleteInit(e) PROVE TypeInv'
  OBVIOUS
<1> DEFINE announce == ~Pooled \/ (~pool.connected /\ Counted = Size)
           r == [esql[e] EXCEPT !.connected = TRUE]
<1>1. /\ esql[e].current = "init"
      /\ esql' = [esql EXCEPT ![e] = r]
      /\ pool' = IF Pooled THEN [connected |-> pool.connected \/ announce, count |-> Counted] ELSE pool
      /\ told' = IF announce THEN Announced("connect") ELSE told
      /\ Goto(IF announce /\ HasConnectCb THEN "ready" ELSE "next")
      /\ UNCHANGED <<database, reconnect, lastId, hash, callbacks, results, budget, outcomes, asked>>
  BY DEF CompleteInit
<1>2. announce \in BOOLEAN
  OBVIOUS
<1>3. r \in EsqlRec /\ r.connected /\ r.current = esql[e].current
  BY ObjectTyped DEF TypeInv, EsqlRec
<1> HIDE DEF announce, r
<1>4. Connected' = Connected \cup {e}
  BY <1>1, <1>3 DEF Connected, TypeInv, TypeOK
<1>5. pool.count \in Nat /\ pool.connected \in BOOLEAN
  BY DEF TypeInv, TypeOK
<1>6. TypeOK'
  <2>1. esql' \in [Conns -> EsqlRec]
    BY <1>1, <1>3, ObjectReplaced DEF TypeInv
  <2>2. run' \in [at : Points, e : Conns, hup : BOOLEAN, h : {"fdh", "stray"}]
    BY <1>1, GotoTyped DEF TypeInv, Points
  <2>3. pool' \in [connected : BOOLEAN, count : Nat]
    BY <1>1, <1>2, <1>5 DEF Counted, TypeInv, TypeOK
  <2>4. told' \in Tellings
    BY <1>1, ToldTyped DEF TypeInv
  <2> QED BY <1>1, <2>1, <2>2, <2>3, <2>4 DEF TypeInv, TypeOK, outcomes, Tellings
<1>7. QueryHasId'
  BY <1>1, <1>3 DEF TypeInv, TypeOK, QueryHasId
<1>8. PoolCovers'
  <2> SUFFICES ASSUME Pooled PROVE pool'.count >= Cardinality(Connected')
    BY DEF PoolCovers
  <2>1. pool'.count = pool.count + 1 /\ pool.count >= Cardinality(Connected)
    BY <1>1 DEF Counted, TypeInv, PoolCovers
  <2>2. Cardinality(Connected \cup {e}) <= Cardinality(Connected) + 1
        /\ Cardinality(Connected \cup {e}) \in Nat
    BY CountWith
  <2> QED BY <1>4, <1>5, <2>1, <2>2, ConnectedFinite
<1> QED BY <1>6, <1>7, <1>8 DEF TypeInv

LEMMA TypeCompleteQuery == \A e \in Conns : TypeInv /\ CompleteQuery(e) => TypeInv'
<1> SUFFICES ASSUME NEW e \in Conns, TypeInv, CompleteQuery(e) PROVE TypeInv'
  OBVIOUS
<1> DEFINE id == esql[e].curId
<1>1. id \in Ids
  BY DEF CompleteQuery, TypeInv, QueryHasId
<1>2. esql[e].m.db \in DbNames \cup {NoDb}
  BY ObjectTyped DEF TypeInv, MYSAC
<1> HIDE DEF id
<1>3. TypeOK'
  <2>1. run' \in [at : Points, e : Conns, hup : BOOLEAN, h : {"fdh", "stray"}]
    BY GotoTyped DEF CompleteQuery, TypeInv, Points
  <2>3. results' \in [queued : Nat, kept : Nat]
    BY DEF CompleteQuery, TypeInv, TypeOK
  <2>2. answers' \in [Ids -> Nat] /\ ran' \subseteq Ids \X (DbNames \cup {NoDb})
    BY <1>1, <1>2 DEF CompleteQuery, id, TypeInv, TypeOK
  <2> QED BY <2>1, <2>2, <2>3 DEF CompleteQuery, TypeInv, TypeOK
<1> QED BY <1>3, ObjectsStep DEF CompleteQuery

\* Steps that only move along the chain.
LEMMA MoveOn ==
  ASSUME TypeInv, NEW point \in Points, Goto(point),
         UNCHANGED <<esql, pool, database, reconnect, lastId, hash, callbacks, results, budget, history>>
  PROVE  TypeInv'
<1>1. TypeOK'
  BY GotoTyped DEF TypeInv, TypeOK, history, outcomes
<1> QED BY <1>1, ObjectsStep

LEMMA TypeCompleteOther == \A e \in Conns : TypeInv /\ CompleteOther(e) => TypeInv'
  BY MoveOn DEF CompleteOther, Points

LEMMA TypeErrorOther == \A e \in Conns : TypeInv /\ ErrorOther(e) => TypeInv'
<1> SUFFICES ASSUME NEW e \in Conns, TypeInv, ErrorOther(e) PROVE TypeInv'
  OBVIOUS
<1>1. run' \in [at : Points, e : Conns, hup : BOOLEAN, h : {"fdh", "stray"}]
  BY GotoTyped DEF ErrorOther, TypeInv, Points
<1>2. told' \in Tellings
  BY ToldTyped DEF ErrorOther, TypeInv
<1>3. UNCHANGED <<esql, pool, database, reconnect, lastId, hash, callbacks, results, budget, outcomes, asked>>
  BY DEF ErrorOther
<1>4. TypeOK'
  BY <1>1, <1>2, <1>3 DEF TypeInv, TypeOK, Tellings, outcomes
<1> QED BY <1>3, <1>4, ObjectsStep

LEMMA TypeConnectCbReturns == \A e \in Conns : TypeInv /\ ConnectCbReturns(e) => TypeInv'
  BY MoveOn DEF ConnectCbReturns, Points

LEMMA TypeDown == \A e \in Conns : TypeInv /\ Down(e) => TypeInv'
  BY TypeCloseAndRetry, IdleTyped, ObjectTyped DEF Down, TypeInv

LEMMA TypeErrorQuery == \A e \in Conns : TypeInv /\ ErrorQuery(e) => TypeInv'
<1> SUFFICES ASSUME NEW e \in Conns, TypeInv, ErrorQuery(e) PROVE TypeInv'
  OBVIOUS
<1>1. esql[e].curId \in Ids
  BY DEF ErrorQuery, TypeInv, QueryHasId
<1>2. AfterFailure \in Points
  BY DEF AfterFailure, Points
<1>3. TypeOK'
  <2>1. run' \in [at : Points, e : Conns, hup : BOOLEAN, h : {"fdh", "stray"}]
    BY <1>2, GotoTyped DEF ErrorQuery, TypeInv, Points
  <2>2. answers' \in [Ids -> Nat] /\ reported' \subseteq Ids /\ dropped' \subseteq Ids
    BY <1>1 DEF ErrorQuery, TypeInv, TypeOK
  <2> QED BY <2>1, <2>2 DEF ErrorQuery, TypeInv, TypeOK
<1> QED BY <1>3, ObjectsStep DEF ErrorQuery

LEMMA TypeQueryCbReturns == \A e \in Conns : TypeInv /\ QueryCbReturns(e) => TypeInv'
<1> SUFFICES ASSUME NEW e \in Conns, TypeInv, QueryCbReturns(e) PROVE TypeInv'
  OBVIOUS
<1>0. /\ results' \in [queued : Nat, kept : Nat]
      /\ budget' \in [BudgetKinds -> Nat]
      /\ FreesError \/ UNCHANGED esql
  BY ReturnedTyped DEF QueryCbReturns, TypeInv, TypeOK
<1>1. /\ esql' \in [Conns -> EsqlRec]
      /\ \A f \in Conns : /\ esql'[f].connected = esql[f].connected
                          /\ esql'[f].current = esql[f].current
                          /\ esql'[f].curId = esql[f].curId
  BY <1>0, ErrorCleared
<1>2. run' \in [at : Points, e : Conns, hup : BOOLEAN, h : {"fdh", "stray"}]
  BY GotoTyped DEF QueryCbReturns, AfterFailure, Points, TypeInv
<1>3. TypeOK'
  BY <1>0, <1>1, <1>2 DEF TypeInv, TypeOK, QueryCbReturns, history, outcomes
<1> QED BY <1>1, <1>3, ObjectsStep DEF QueryCbReturns

----------------------------------------------------------------------------
(* Rebalancing *)

\* Among members there is a first one.
LEMMA FirstExists ==
  ASSUME NEW S \in SUBSET Conns, S # {}
  PROVE  FirstOf(S) \in S
<1> DEFINE R == OpToRel(<, Nat)
<1>1. S \subseteq Nat
  BY ConstantsTyped
<1>2. PICK x \in S : \A y \in S : ~(<<y, x>> \in R)
  <2>1. IsWellFoundedOn(R, Nat)
    BY NatLessThanWellFounded
  <2> HIDE DEF R
  <2> QED BY <1>1, <2>1, WFMin
<1>3. \A y \in S : x <= y
  <2> SUFFICES ASSUME NEW y \in S, y < x PROVE FALSE
    BY <1>1
  <2>1. <<y, x>> \in R
    BY <1>1 DEF OpToRel
  <2> QED BY <1>2, <2>1
<1> QED BY <1>2, <1>3 DEF FirstOf

\* Rebalancing moves a call between queues and touches nothing else.
LEMMA RebalancedTyped ==
  ASSUME TypeOK, NEW e \in Conns
  PROVE  /\ Rebalanced(e) \in [Conns -> EsqlRec]
         /\ \A f \in Conns : /\ Rebalanced(e)[f].connected = esql[f].connected
                             /\ Rebalanced(e)[f].rtimers = esql[f].rtimers
                             /\ Rebalanced(e)[f].current = esql[f].current
                             /\ Rebalanced(e)[f].curId = esql[f].curId
<1> DEFINE donors == {d \in Conns : OffersQuery(esql[d])}
           d == FirstOf(donors)
<1>1. CASE ~(esql[e].queue = <<>> /\ Pooled /\ donors # {})
  BY <1>1 DEF Rebalanced, TypeOK
<1>2. CASE esql[e].queue = <<>> /\ Pooled /\ donors # {}
  <2>1. d \in donors
    BY <1>2, FirstExists
  <2>2. d \in Conns /\ esql[d].queue # <<>>
    BY <2>1 DEF OffersQuery
  <2>3. d # e
    BY <1>2, <2>2
  <2>4. Rebalanced(e) = [esql EXCEPT ![d].queue = Tail(@), ![e].queue = <<Head(esql[d].queue)>>]
    BY <1>2 DEF Rebalanced
  <2> HIDE DEF d
  <2>5. Rebalanced(e) = [esql EXCEPT ![d] = [esql[d] EXCEPT !.queue = Tail(esql[d].queue)],
                                     ![e] = [esql[e] EXCEPT !.queue = <<Head(esql[d].queue)>>]]
    BY <2>2, <2>3, <2>4 DEF TypeOK
  <2>6. esql[d].queue \in Seq(Call)
    BY <2>2, ObjectTyped DEF EsqlRec
  <2>7. Tail(esql[d].queue) \in Seq(Call) /\ <<Head(esql[d].queue)>> \in Seq(Call)
    BY <2>2, <2>6
  <2>8. ASSUME NEW s \in EsqlRec, NEW q \in Seq(Call)
        PROVE  LET r == [s EXCEPT !.queue = q]
               IN  /\ r \in EsqlRec /\ r.connected = s.connected /\ r.rtimers = s.rtimers
                   /\ r.current = s.current /\ r.curId = s.curId
    BY DEF EsqlRec
  <2>9. esql[d] \in EsqlRec /\ esql[e] \in EsqlRec
    BY <2>2, ObjectTyped
  <2> DEFINE rd == [esql[d] EXCEPT !.queue = Tail(esql[d].queue)]
             re == [esql[e] EXCEPT !.queue = <<Head(esql[d].queue)>>]
  <2>10. /\ rd \in EsqlRec /\ rd.connected = esql[d].connected /\ rd.rtimers = esql[d].rtimers
         /\ rd.current = esql[d].current /\ rd.curId = esql[d].curId
    BY <2>7, <2>8, <2>9
  <2>11. /\ re \in EsqlRec /\ re.connected = esql[e].connected /\ re.rtimers = esql[e].rtimers
         /\ re.current = esql[e].current /\ re.curId = esql[e].curId
    BY <2>7, <2>8, <2>9
  <2>12. Rebalanced(e) = [esql EXCEPT ![d] = rd, ![e] = re]
    BY <2>5
  <2> HIDE DEF rd, re
  <2>13. \A f \in Conns : Rebalanced(e)[f] = IF f = e THEN re ELSE IF f = d THEN rd ELSE esql[f]
    BY <2>2, <2>3, <2>12 DEF TypeOK
  <2>14. Rebalanced(e) \in [Conns -> EsqlRec]
    BY <2>2, <2>10, <2>11, <2>12 DEF TypeOK
  <2> QED BY <2>2, <2>10, <2>11, <2>13, <2>14
<1> QED BY <1>1, <1>2

\* Rebalancing touches the queues only.
LEMMA RebalancedParts ==
  ASSUME TypeOK, NEW e \in Conns, NEW f \in Conns
  PROVE  /\ Rebalanced(e)[f].fdh = esql[f].fdh /\ Rebalanced(e)[f].stray = esql[f].stray
         /\ Rebalanced(e)[f].m = esql[f].m /\ Rebalanced(e)[f].job = esql[f].job
<1>1. ASSUME NEW s \in EsqlRec, NEW q
      PROVE  LET r == [s EXCEPT !.queue = q]
             IN  r.fdh = s.fdh /\ r.stray = s.stray /\ r.m = s.m /\ r.job = s.job
  BY DEF EsqlRec
<1> DEFINE donors == {d \in Conns : OffersQuery(esql[d])}
           d == FirstOf(donors)
<1>2. CASE ~(esql[e].queue = <<>> /\ Pooled /\ donors # {})
  BY <1>2 DEF Rebalanced
<1>3. CASE esql[e].queue = <<>> /\ Pooled /\ donors # {}
  <2>1. d \in donors
    BY <1>3, FirstExists
  <2>2. d \in Conns /\ d # e
    BY <1>3, <2>1 DEF OffersQuery
  <2>3. Rebalanced(e) = [esql EXCEPT ![d].queue = Tail(@), ![e].queue = <<Head(esql[d].queue)>>]
    BY <1>3 DEF Rebalanced
  <2> HIDE DEF d
  <2> DEFINE rd == [esql[d] EXCEPT !.queue = Tail(esql[d].queue)]
             re == [esql[e] EXCEPT !.queue = <<Head(esql[d].queue)>>]
  <2>4. Rebalanced(e) = [esql EXCEPT ![d] = rd, ![e] = re]
    BY <2>2, <2>3 DEF TypeOK
  <2>5. /\ rd.fdh = esql[d].fdh /\ rd.stray = esql[d].stray /\ rd.m = esql[d].m /\ rd.job = esql[d].job
        /\ re.fdh = esql[e].fdh /\ re.stray = esql[e].stray /\ re.m = esql[e].m /\ re.job = esql[e].job
    BY <1>1, <2>2, ObjectTyped
  <2> HIDE DEF rd, re
  <2>6. Rebalanced(e)[f] = IF f = e THEN re ELSE IF f = d THEN rd ELSE esql[f]
    BY <2>2, <2>4 DEF TypeOK
  <2> QED BY <2>5, <2>6
<1> QED BY <1>2, <1>3

LEMMA TypeNextIdle == \A e \in Conns : TypeInv /\ NextIdle(e) => TypeInv'
<1> SUFFICES ASSUME NEW e \in Conns, TypeInv, NextIdle(e) PROVE TypeInv'
  OBVIOUS
<1> DEFINE r == Finished(esql[e])
<1>1. esql[e] \in EsqlRec /\ r \in EsqlRec
  BY ObjectTyped, FinishedTyped DEF TypeInv
<1>2. r.connected = esql[e].connected /\ r.current = "none"
  BY <1>1 DEF Finished, EsqlRec
<1>3. esql' = [esql EXCEPT ![e] = r]
  BY DEF NextIdle
<1> HIDE DEF r
<1>4. TypeOK'
  <2>1. esql' \in [Conns -> EsqlRec]
    BY <1>1, <1>3, ObjectReplaced DEF TypeInv
  <2> QED BY <2>1, IdleTyped DEF NextIdle, TypeInv, TypeOK, history, outcomes
<1> QED BY <1>2, <1>3, <1>4, OneObject DEF NextIdle

LEMMA AppendNotEmpty ==
  ASSUME NEW S, NEW q \in Seq(S), NEW c \in S PROVE Append(q, c) # <<>>
<1>1. Len(Append(q, c)) = Len(q) + 1 /\ Len(q) \in Nat
  OBVIOUS
<1>2. Len(<<>>) = 0
  OBVIOUS
<1>3. Len(Append(q, c)) # 0
  BY <1>1
<1> QED BY <1>2, <1>3

LEMMA TypeNextDatabase == \A e \in Conns : TypeInv /\ NextDatabase(e) => TypeInv'
<1> SUFFICES ASSUME NEW e \in Conns, TypeInv, NextDatabase(e) PROVE TypeInv'
  OBVIOUS
<1> DEFINE call == Head(esql[e].queue)
           switched == DatabaseSwitched(Finished(esql[e]), call.db)
           popped == [switched EXCEPT !.queue = Tail(@)]
           r == Active(popped, "fdh", "off")
<1>1. esql[e] \in EsqlRec /\ esql[e].queue \in Seq(Call) /\ esql[e].queue # <<>>
  BY ObjectTyped DEF TypeInv, EsqlRec, NextDatabase
<1>2. call \in Call /\ call.fn = "database_set"
  BY <1>1 DEF NextDatabase
<1>3. call.db \in DbNames
  BY <1>2 DEF Call
<1>4. Finished(esql[e]) \in EsqlRec
  BY <1>1, FinishedTyped
<1>5. /\ Finished(esql[e]).connected = esql[e].connected /\ Finished(esql[e]).current = "none"
      /\ Finished(esql[e]).queue = esql[e].queue
  BY <1>1 DEF Finished, EsqlRec
<1>6. /\ switched \in EsqlRec /\ switched.connected = esql[e].connected
      /\ switched.current # "query"
  BY <1>3, <1>4, <1>5, DatabaseSwitchedTyped, SwitchKeeps
<1>7. switched.queue # <<>>
  <2> DEFINE c == [fn |-> "database_set", id |-> 0, db |-> call.db]
  <2>1. Append(esql[e].queue, c) # <<>>
    <3>1. c \in Call
      BY <1>3, CallTyped
    <3> HIDE DEF c
    <3> QED BY <1>1, <3>1, AppendNotEmpty
  <2>2. switched.queue \in {esql[e].queue, Append(esql[e].queue, c)}
    <3> HIDE DEF call
    <3> QED BY <1>4, <1>5 DEF DatabaseSwitched, Enqueued, EsqlRec
  <2> QED BY <1>1, <2>1, <2>2
<1>8. esql' = [esql EXCEPT ![e] = r]
  BY DEF NextDatabase
<1> HIDE DEF switched
<1>9. r \in EsqlRec /\ r.connected = esql[e].connected /\ r.current # "query"
  <2>1. Tail(switched.queue) \in Seq(Call)
    BY <1>6, <1>7 DEF EsqlRec
  <2>2. popped \in EsqlRec /\ popped.connected = esql[e].connected /\ popped.current # "query"
    BY <1>6, <2>1 DEF EsqlRec
  <2> HIDE DEF popped
  <2>3. r \in EsqlRec
    BY <2>2, ActiveTyped DEF Handlers
  <2> QED BY <2>2, <2>3, ActiveKeeps
<1> HIDE DEF r
<1>10. TypeOK'
  <2>1. esql' \in [Conns -> EsqlRec]
    BY <1>8, <1>9, ObjectReplaced DEF TypeInv
  <2>2. run' \in [at : Points, e : Conns, hup : BOOLEAN, h : {"fdh", "stray"}]
    BY DEF NextDatabase, TypeInv, TypeOK, Points
  <2> QED BY <1>3, <2>1, <2>2 DEF NextDatabase, TypeInv, TypeOK, history, outcomes
<1> QED BY <1>8, <1>9, <1>10, OneObject DEF NextDatabase

LEMMA TypeNextQuery == \A e \in Conns : TypeInv /\ NextQuery(e) => TypeInv'
<1> SUFFICES ASSUME NEW e \in Conns, TypeInv, NextQuery(e) PROVE TypeInv'
  OBVIOUS
<1> DEFINE all == Rebalanced(e)
           id == Head(all[e].queue).id
<1>0. PICK m \in {SetQuery(all[e].m), QueryTooLong(all[e].m)} :
        \E r : /\ esql' = [all EXCEPT ![e] = r]
               /\ r \in {Taken([all[e] EXCEPT !.m = m], id), Active(Taken([all[e] EXCEPT !.m = m], id), "fdh", "off")}
  BY DEF NextQuery
<1>1. PICK r :
        /\ esql' = [all EXCEPT ![e] = r]
        /\ r \in {Taken([all[e] EXCEPT !.m = m], id), Active(Taken([all[e] EXCEPT !.m = m], id), "fdh", "off")}
  BY <1>0
<1>2. /\ all \in [Conns -> EsqlRec]
      /\ \A f \in Conns : /\ all[f].connected = esql[f].connected
                          /\ all[f].current = esql[f].current
                          /\ all[f].curId = esql[f].curId
  BY RebalancedTyped DEF TypeInv
<1>3. OffersQuery(all[e]) /\ hash' = [hash EXCEPT ![id] = NoData]
  BY DEF NextQuery
<1> HIDE DEF all
<1>4. all[e] \in EsqlRec /\ all[e].queue \in Seq(Call) /\ all[e].queue # <<>> /\ all[e].m \in MYSAC
  BY <1>2, <1>3 DEF OffersQuery, EsqlRec
<1>5. id \in Ids
  <2>1. Head(all[e].queue) \in Call /\ Head(all[e].queue).fn = "query"
    BY <1>3, <1>4 DEF OffersQuery
  <2> QED BY <2>1, CallTyped
<1> DEFINE s == [all[e] EXCEPT !.m = m]
           t == Taken(s, id)
<1>6. s \in EsqlRec /\ s.connected = esql[e].connected /\ s.queue = all[e].queue
  BY <1>1, <1>2, <1>4, CommandsTyped DEF EsqlRec
<1>7. esql' = [all EXCEPT ![e] = r] /\ r \in {t, Active(t, "fdh", "off")}
  BY <1>1
<1> HIDE DEF s, id
<1>8. r \in EsqlRec /\ r.connected = esql[e].connected /\ r.curId = id
  <2>1. Tail(s.queue) \in Seq(Call)
    BY <1>4, <1>6
  <2>2. hash[id] \in Ids \cup {NoData}
    BY <1>5 DEF TypeInv, TypeOK
  <2>3. t \in EsqlRec /\ t.connected = esql[e].connected /\ t.curId = id
    BY <1>5, <1>6, <2>1, <2>2 DEF Taken, EsqlRec, Currents
  <2> HIDE DEF t
  <2>4. Active(t, "fdh", "off") \in EsqlRec
    BY <2>3, ActiveTyped DEF Handlers
  <2> QED BY <1>7, <2>3, <2>4, ActiveKeeps
<1>9. TypeOK'
  <2>1. esql' \in [Conns -> EsqlRec]
    BY <1>2, <1>7, <1>8
  <2>2. run' \in [at : Points, e : Conns, hup : BOOLEAN, h : {"fdh", "stray"}]
    BY DEF NextQuery, TypeInv, TypeOK, Points
  <2>3. budget' \in [BudgetKinds -> Nat]
    BY SpendTyped DEF NextQuery, TypeInv, TypeOK, BudgetKinds
  <2>4. hash' \in [Ids -> Ids \cup {NoData}]
    BY <1>3 DEF TypeInv, TypeOK
  <2> QED BY <2>1, <2>2, <2>3, <2>4 DEF NextQuery, TypeInv, TypeOK, history, outcomes
<1>10. ASSUME NEW f \in Conns
       PROVE  /\ esql'[f].connected = esql[f].connected
              /\ \/ esql'[f].curId \in Ids
                 \/ esql'[f].current = esql[f].current /\ esql'[f].curId = esql[f].curId
  BY <1>2, <1>5, <1>7, <1>8
<1> QED BY <1>9, <1>10, ObjectsStep DEF NextQuery

----------------------------------------------------------------------------
(* The theorems *)

LEMMA TypeStep == TypeInv /\ [Next]_vars => TypeInv'
<1> SUFFICES ASSUME TypeInv, [Next]_vars PROVE TypeInv'
  OBVIOUS
<1>1. CASE Program
  BY <1>1, TypeProgram
<1>2. CASE ResultEvent \/ ResultUnref
  BY <1>2, TypeResultEvent
<1>3. ASSUME NEW e \in Conns, Sources(e) PROVE TypeInv'
  BY <1>3, TypeFdReady, TypeRunJob, TypeTimeoutFires, TypeReconnectFires DEF Sources
<1>4. ASSUME NEW e \in Conns, Io(e) \/ Complete(e) PROVE TypeInv'
  BY <1>4, TypeIoWait, TypeIoDone, TypeIoFail, TypeCompleteInit, TypeCompleteQuery,
     TypeCompleteOther DEF Io, Complete
<1>5. ASSUME NEW e \in Conns, NextCall(e) PROVE TypeInv'
  BY <1>5, TypeNextIdle, TypeNextDatabase, TypeNextQuery DEF NextCall
<1>6. ASSUME NEW e \in Conns, Error(e) \/ CbReturns(e) PROVE TypeInv'
  BY <1>6, TypeErrorQuery, TypeErrorOther, TypeDown, TypeConnectCbReturns, TypeQueryCbReturns
     DEF Error, CbReturns
<1>7. CASE UNCHANGED vars
  <2>1. TypeOK'
    BY <1>7 DEF TypeInv, TypeOK, vars, history, outcomes
  <2> QED BY <1>7, <2>1, ObjectsStep DEF vars
<1> QED BY <1>1, <1>2, <1>3, <1>4, <1>5, <1>6, <1>7 DEF Next, Chain

LEMMA TypeInvariant == Spec => []TypeInv
  BY TypeInit, TypeStep, PTL DEF Spec

\* Type correctness of the event loop: whatever the program calls and the
\* network does, no handler leaves a call, a counter or a queue outside its type.
\* (pool.count, an unsigned count in the model's Nat, would go below zero.)
THEOREM TypeCorrect == Spec => []TypeOK
<1>1. TypeInv => TypeOK
  BY DEF TypeInv
<1> QED BY <1>1, TypeInvariant, PTL

\* The pool never counts fewer connections than it has (e_connected of
\* esql_pool.c against the members' connected flags).
THEOREM PoolCoversCorrect == Spec => []PoolCovers
<1>1. TypeInv => PoolCovers
  BY DEF TypeInv
<1> QED BY <1>1, TypeInvariant, PTL

----------------------------------------------------------------------------
(* The pool's count is exact as long as nobody reconnects: a handshake can *)
(* complete only once on a connection, because a connected object leaves   *)
(* its handshake before the main loop is reached again.  (With reconnect   *)
(* timers, one that fires late dials over a connection that is up, and its *)
(* handshake is counted a second time.)                                    *)

\* The thread is between the completion of run.e's handshake and its next call.
Settling(e) == run.e = e /\ run.at \in {"ready", "next"}

\* Only then is an object connected and still in its handshake.
InitSettles == \A e \in Conns : esql[e].connected /\ esql[e].current = "init" => Settling(e)

NoTimers == \A e \in Conns : esql[e].rtimers = 0

CountInv ==
  /\ NoTimers /\ InitSettles
  /\ Pooled => pool.count = Cardinality(Connected)

LEMMA CountInit == Init => CountInv
<1> SUFFICES ASSUME Init PROVE CountInv
  OBVIOUS
<1>1. Connected = {}
  BY DEF Init, Connected, NewEsql
<1>2. NoTimers /\ InitSettles
  BY DEF Init, NoTimers, InitSettles, NewEsql
<1> QED BY <1>1, <1>2, FS_EmptySet DEF CountInv, Init

----------------------------------------------------------------------------
(* What a step does to the connected flags, the count and what the program *)
(* was told                                                                *)

\* It connects and disconnects nobody, starts no handshake on a connection
\* that is up and does not leave a settling object behind.
Undisturbed ==
  \A e \in Conns : /\ esql'[e].connected = esql[e].connected
                   /\ esql'[e].rtimers = esql[e].rtimers
                   /\ esql[e].connected /\ esql'[e].current = "init" => esql[e].current = "init"
                   /\ \/ Settling(e) => Settling(e)' \/ esql'[e].current # "init"

Still == Undisturbed /\ pool' = pool /\ (HasConnectCb \/ told' = told)

\* It closes the objects in S, and the program hears of it if none is left.
Closes(S) ==
  /\ pool'.count = PoolWithout(S).count
  /\ pool'.connected => pool.connected
  /\ told' = IF TellsDisconnect(S) THEN Announced("disconnect") ELSE told
  /\ \A e \in Conns : /\ Settling(e) => Settling(e)'
                      /\ esql'[e].connected = (esql[e].connected /\ e \notin S)
                      /\ esql'[e].rtimers = esql[e].rtimers
                      /\ esql'[e].current = esql[e].current

\* The handshake of e is over.
Opens(e) ==
  /\ run.at = "complete" /\ esql[e].current = "init" /\ Settling(e)'
  /\ Pooled => pool'.count = pool.count + 1
  /\ ~Pooled => told' = Announced("connect")
  /\ \A f \in Conns : /\ esql'[f].connected = (esql[f].connected \/ f = e)
                      /\ esql'[f].rtimers = esql[f].rtimers
                      /\ esql'[f].current = esql[f].current

Changes == Still \/ (\E S \in SUBSET Conns : Closes(S)) \/ \E e \in Conns : Opens(e)

LEMMA StillCounts == TypeInv /\ CountInv /\ Still => CountInv'
<1> SUFFICES ASSUME CountInv, Still PROVE CountInv'
  OBVIOUS
<1>1. NoTimers'
  BY DEF CountInv, NoTimers, Still, Undisturbed
<1>2. InitSettles'
  <2> SUFFICES ASSUME NEW e \in Conns, esql'[e].connected, esql'[e].current = "init"
               PROVE  Settling(e)'
    BY DEF InitSettles
  <2> QED BY DEF CountInv, InitSettles, Still, Undisturbed
<1>3. Connected' = Connected
  BY DEF Still, Undisturbed, Connected
<1> QED BY <1>1, <1>2, <1>3 DEF CountInv, Still

\* Closing the members in S leaves the count exact.
LEMMA ClosesCounts == \A S \in SUBSET Conns : TypeInv /\ CountInv /\ Closes(S) => CountInv'
<1> SUFFICES ASSUME NEW S \in SUBSET Conns, TypeInv, CountInv, Closes(S) PROVE CountInv'
  OBVIOUS
<1>1. NoTimers'
  BY DEF CountInv, NoTimers, Closes
<1>2. InitSettles'
  BY DEF CountInv, InitSettles, Closes
<1>3. Connected' = Connected \ S
  BY DEF Connected, Closes
<1>4. Pooled => pool'.count = Cardinality(Connected \ S)
  <2> SUFFICES ASSUME Pooled PROVE pool'.count = Cardinality(Connected \ S)
    OBVIOUS
  <2>1. /\ PoolWithout(S).count = pool.count - Cardinality(Connected) + Cardinality(Connected \ S)
        /\ Cardinality(Connected \ S) \in Nat
    BY CountWithout DEF TypeInv
  <2>2. pool.count = Cardinality(Connected)
    BY DEF CountInv
  <2> QED BY <2>1, <2>2, ConnectedFinite DEF Closes
<1> QED BY <1>1, <1>2, <1>3, <1>4 DEF CountInv

\* The member whose handshake is over was not counted before.
LEMMA OpensCounts == \A e \in Conns : TypeInv /\ CountInv /\ Opens(e) => CountInv'
<1> SUFFICES ASSUME NEW e \in Conns, CountInv, Opens(e) PROVE CountInv'
  OBVIOUS
<1>1. NoTimers'
  BY DEF CountInv, NoTimers, Opens
<1>2. \A f \in Conns : ~(esql[f].connected /\ esql[f].current = "init")
  BY DEF CountInv, InitSettles, Settling, Opens
<1>3. InitSettles'
  BY <1>2 DEF InitSettles, Opens
<1>4. Connected' = Connected \cup {e} /\ e \notin Connected
  BY <1>2 DEF Connected, Opens
<1>5. Cardinality(Connected \cup {e}) = Cardinality(Connected) + 1
  BY <1>4, CountWith
<1> QED BY <1>1, <1>3, <1>4, <1>5 DEF CountInv, Opens

----------------------------------------------------------------------------
(* The steps *)

LEMMA FlagsConnect == TypeInv /\ CountInv /\ Connect => Changes
<1> SUFFICES ASSUME TypeInv, CountInv, Connect PROVE Changes
  OBVIOUS
<1> DEFINE ready(e) == [esql[e] EXCEPT !.m = Setup(@)]
           dialled(e) == IF esql[e].connected THEN {esql[e]}
                         ELSE Dialled(ready(e)) \cup NotDialled(ready(e))
<1>1. \A e \in Conns : esql'[e] \in dialled(e)
  BY DEF Connect
<1>2. ASSUME NEW e \in Conns
      PROVE  /\ esql'[e].connected = esql[e].connected
             /\ esql'[e].rtimers = esql[e].rtimers
             /\ esql[e].connected => esql'[e] = esql[e]
  <2>1. esql[e] \in EsqlRec /\ esql[e].m \in MYSAC
    BY ObjectTyped DEF TypeInv
  <2>2. /\ ready(e) \in EsqlRec /\ ready(e).connected = esql[e].connected
        /\ ready(e).rtimers = esql[e].rtimers
    BY <2>1, CommandsTyped DEF EsqlRec
  <2>3. CASE ~esql[e].connected
    <3> HIDE DEF ready
    <3> QED BY <1>1, <2>2, <2>3, DialKeeps
  <2> QED BY <1>1, <2>3
<1>3. Undisturbed
  BY <1>2 DEF Undisturbed, Settling, Connect
<1> QED BY <1>3 DEF Changes, Still, Connect, history

LEMMA FlagsDisconnect == TypeInv /\ CountInv /\ Disconnect => Changes
<1> SUFFICES ASSUME TypeInv, CountInv, Disconnect PROVE Changes
  OBVIOUS
<1> DEFINE S == IF Pooled THEN {e \in Conns : esql[e].connected} ELSE Conns
<1>1. /\ esql' = [e \in Conns |-> IF e \in S THEN Closed(esql[e]) ELSE esql[e]]
      /\ pool' = [PoolWithout(S) EXCEPT !.connected = FALSE]
      /\ run' = [run EXCEPT !.hup = HupAfterClosing(S)]
      /\ told' = IF TellsDisconnect(S) THEN Announced("disconnect") ELSE told
  BY DEF Disconnect
<1>2. S \in SUBSET Conns
  OBVIOUS
<1>3. ASSUME NEW e \in Conns
      PROVE  /\ esql'[e].connected = (esql[e].connected /\ e \notin S)
             /\ esql'[e].rtimers = esql[e].rtimers /\ esql'[e].current = esql[e].current
  BY <1>1, ObjectTyped DEF TypeInv, EsqlRec, Closed
<1> HIDE DEF S
<1>4. Pooled => pool'.count = PoolWithout(S).count
  BY <1>1, <1>2, CountWithout DEF TypeInv
<1>5. ~Pooled => pool'.count = PoolWithout(S).count
  BY <1>1 DEF PoolWithout, TypeInv, TypeOK
<1>6. \A e \in Conns : Settling(e) => Settling(e)'
  BY <1>1 DEF Settling, TypeInv, TypeOK
<1>7. ~pool'.connected
  <2>1. PoolWithout(S) = [connected |-> PoolWithout(S).connected, count |-> PoolWithout(S).count]
    BY <1>2, CountWithout DEF TypeInv, TypeOK, PoolWithout
  <2> QED BY <1>1, <2>1
<1>8. Closes(S)
  BY <1>1, <1>3, <1>4, <1>5, <1>6, <1>7 DEF Closes
<1> QED BY <1>2, <1>8 DEF Changes

LEMMA FlagsDatabaseSet == \A d \in DbNames : TypeInv /\ CountInv /\ DatabaseSet(d) => Changes
<1> SUFFICES ASSUME NEW d \in DbNames, TypeInv, CountInv, DatabaseSet(d) PROVE Changes
  OBVIOUS
<1>1. ASSUME NEW e \in Conns
      PROVE  /\ esql'[e].connected = esql[e].connected
             /\ esql'[e].rtimers = esql[e].rtimers
             /\ esql'[e].current = "init" => esql[e].current = "init"
  <2>1. esql'[e] = DatabaseSwitched(esql[e], d) /\ esql[e] \in EsqlRec
    BY ObjectTyped DEF DatabaseSet, TypeInv
  <2> QED BY <2>1, SwitchKeeps
<1>2. Undisturbed
  BY <1>1 DEF Undisturbed, Settling, DatabaseSet
<1> QED BY <1>2 DEF Changes, Still, DatabaseSet

LEMMA FlagsTimeoutSet == \A on \in BOOLEAN : TypeInv /\ CountInv /\ TimeoutSet(on) => Changes
<1> SUFFICES ASSUME NEW on \in BOOLEAN, TypeInv, CountInv, TimeoutSet(on) PROVE Changes
  OBVIOUS
<1>1. ASSUME NEW e \in Conns
      PROVE  /\ esql'[e].connected = esql[e].connected
             /\ esql'[e].rtimers = esql[e].rtimers
             /\ esql'[e].current = esql[e].current
  <2>1. esql'[e] = [esql[e] EXCEPT !.timeout = on] /\ esql[e] \in EsqlRec
    BY ObjectTyped DEF TimeoutSet, TypeInv
  <2> QED BY <2>1 DEF EsqlRec
<1>2. Undisturbed
  BY <1>1 DEF Undisturbed, Settling, TimeoutSet
<1> QED BY <1>2 DEF Changes, Still, TimeoutSet, history

\* A step that changes one object, and goes on from where the thread was.
LEMMA FlagsOneObject ==
  ASSUME TypeInv, CountInv, pool' = pool, HasConnectCb \/ told' = told, NEW e \in Conns,
         \A f \in Conns \ {e} : esql'[f] = esql[f],
         esql'[e].connected = esql[e].connected, esql'[e].rtimers = esql[e].rtimers,
         esql'[e].current = "init" => esql[e].current = "init",
         \A f \in Conns : Settling(f) => \/ Settling(f)'
                                        \/ (f = e /\ esql'[f].current # "init")
  PROVE  Changes
<1>1. Undisturbed
  BY DEF Undisturbed
<1> QED BY <1>1 DEF Changes, Still

LEMMA FlagsQuery ==
  \A t \in Conns : TypeInv /\ CountInv /\ (QueryStart(t) \/ QueryQueue(t) \/ QueryRefused(t)) => Changes
<1> SUFFICES ASSUME NEW t \in Conns, TypeInv, CountInv,
                    QueryStart(t) \/ QueryQueue(t) \/ QueryRefused(t)
             PROVE  Changes
  OBVIOUS
<1>1. esql[t] \in EsqlRec /\ esql \in [Conns -> EsqlRec]
  BY ObjectTyped DEF TypeInv, TypeOK
<1>2. pool' = pool /\ run' = run /\ told' = told
  BY DEF QueryStart, QueryQueue, QueryRefused, Issue, history
<1>3. \A f \in Conns \ {t} : esql'[f] = esql[f]
  BY <1>1 DEF QueryStart, QueryQueue, QueryRefused, Issue
<1>4. /\ esql'[t].connected = esql[t].connected /\ esql'[t].rtimers = esql[t].rtimers
      /\ esql'[t].current = "init" => esql[t].current = "init"
  <2>1. CASE QueryStart(t)
    <3>1. esql'[t] = Started(esql[t], lastId + 1)
      BY <1>1, <2>1 DEF QueryStart, Issue
    <3> QED BY <1>1, <3>1 DEF Started, EsqlRec
  <2>2. CASE QueryQueue(t)
    <3>1. PICK call : esql'[t] = Enqueued(esql[t], call)
      BY <1>1, <2>2 DEF QueryQueue, Issue
    <3> QED BY <1>1, <3>1 DEF Enqueued, EsqlRec
  <2>3. CASE QueryRefused(t)
    <3>1. PICK m : esql'[t] = [esql[t] EXCEPT !.m = m]
      BY <1>1, <2>3 DEF QueryRefused
    <3> QED BY <1>1, <3>1 DEF EsqlRec
  <2> QED BY <2>1, <2>2, <2>3
<1>5. \A f \in Conns : Settling(f) => Settling(f)'
  BY <1>2 DEF Settling
<1>6. Undisturbed
  BY <1>3, <1>4, <1>5 DEF Undisturbed
<1> QED BY <1>2, <1>6 DEF Changes, Still

LEMMA FlagsCallbackSet == \A id \in Ids : TypeInv /\ CountInv /\ QueryCallbackSet(id) => Changes
<1> SUFFICES ASSUME NEW id \in Ids, TypeInv, CountInv, QueryCallbackSet(id) PROVE Changes
  OBVIOUS
<1>1. Undisturbed
  BY DEF Undisturbed, QueryCallbackSet, Settling
<1> QED BY <1>1 DEF Changes, Still, QueryCallbackSet, history

LEMMA FlagsReconnectSet == \A on \in BOOLEAN : TypeInv /\ CountInv /\ ReconnectSet(on) => Changes
<1> SUFFICES ASSUME NEW on \in BOOLEAN, TypeInv, CountInv, ReconnectSet(on) PROVE Changes
  OBVIOUS
<1>1. Undisturbed
  BY DEF Undisturbed, ReconnectSet, Settling
<1> QED BY <1>1 DEF Changes, Still, ReconnectSet, history

LEMMA FlagsProgram == TypeInv /\ CountInv /\ Program => Changes
  BY FlagsConnect, FlagsDisconnect, FlagsDatabaseSet, FlagsTimeoutSet, FlagsQuery,
     FlagsReconnectSet, FlagsCallbackSet DEF Program

\* Nobody is settling when the thread is in the main loop, in io or in an error.
LEMMA FlagsElsewhere ==
  ASSUME TypeInv, CountInv, pool' = pool, HasConnectCb \/ told' = told, NEW e \in Conns, run.at \notin {"ready", "next"},
         \A f \in Conns \ {e} : esql'[f] = esql[f],
         esql'[e].connected = esql[e].connected, esql'[e].rtimers = esql[e].rtimers,
         esql'[e].current = esql[e].current
  PROVE  Changes
<1>1. \A f \in Conns : ~Settling(f)
  BY DEF Settling
<1> QED BY <1>1, FlagsOneObject

LEMMA FlagsSources ==
  \A e \in Conns : TypeInv /\ CountInv /\ (FdReady(e) \/ RunJob(e)) => Changes
<1> SUFFICES ASSUME NEW e \in Conns, TypeInv, CountInv, FdReady(e) \/ RunJob(e)
             PROVE  Changes
  OBVIOUS
<1>1. esql[e] \in EsqlRec /\ esql \in [Conns -> EsqlRec]
  BY ObjectTyped DEF TypeInv, TypeOK
<1>2. PICK s \in EsqlRec, h \in {"fdh", "stray"} :
        /\ s.connected = esql[e].connected /\ s.rtimers = esql[e].rtimers
        /\ s.current = esql[e].current
        /\ esql' = [esql EXCEPT ![e] = Active(s, h, "off")]
  <2>1. CASE FdReady(e)
    BY <1>1, <2>1 DEF FdReady
  <2>2. CASE RunJob(e)
    <3> DEFINE s == [esql[e] EXCEPT !.job = FALSE]
    <3>1. /\ s \in EsqlRec
          /\ s.connected = esql[e].connected /\ s.rtimers = esql[e].rtimers
          /\ s.current = esql[e].current
      BY <1>1 DEF EsqlRec
    <3>2. esql' = [esql EXCEPT ![e] = Active(s, "fdh", "off")]
      BY <2>2 DEF RunJob
    <3> QED BY <3>1, <3>2
  <2> QED BY <2>1, <2>2
<1>3. /\ esql'[e].connected = esql[e].connected /\ esql'[e].rtimers = esql[e].rtimers
      /\ esql'[e].current = esql[e].current
  BY <1>1, <1>2, ActiveKeeps
<1>4. run.at \notin {"ready", "next"} /\ pool' = pool /\ told' = told
  BY DEF FdReady, RunJob, LoopTurn, history
<1> QED BY <1>1, <1>2, <1>3, <1>4, FlagsElsewhere

LEMMA FlagsCloseAndRetry ==
  ASSUME TypeInv, CountInv, NEW e \in Conns, NEW s \in EsqlRec, CloseAndRetry(e, s),
         s.current = esql[e].current, s.rtimers = esql[e].rtimers,
         run.at \notin {"ready", "next"}, reconnect # "on"
  PROVE  Changes
<1>1. esql \in [Conns -> EsqlRec]
  BY DEF TypeInv, TypeOK
<1>2. esql' = [esql EXCEPT ![e] = [Closed(s) EXCEPT !.rtimers = IF reconnect = "on" THEN @ + 1 ELSE @]]
      /\ pool' = PoolWithout({e})
      /\ told' = IF TellsDisconnect({e}) THEN Announced("disconnect") ELSE told
  BY DEF CloseAndRetry
<1>3. /\ esql'[e].connected = FALSE /\ esql'[e].current = esql[e].current
      /\ esql'[e].rtimers = esql[e].rtimers
  <2>1. ASSUME NEW c \in EsqlRec, NEW n
        PROVE  LET d == [c EXCEPT !.rtimers = n]
               IN  d.connected = c.connected /\ d.current = c.current /\ d.rtimers = n
    BY DEF EsqlRec
  <2>2. Closed(s) \in EsqlRec /\ ~Closed(s).connected
        /\ Closed(s).current = s.current /\ Closed(s).rtimers = s.rtimers
    BY ClosedTyped DEF Closed, EsqlRec
  <2>3. PICK n : /\ esql'[e] = [Closed(s) EXCEPT !.rtimers = n]
                 /\ n = Closed(s).rtimers
    BY <1>1, <1>2
  <2> QED BY <2>1, <2>2, <2>3
<1>4. \A f \in Conns : ~Settling(f)
  BY DEF Settling
<1>5. ASSUME NEW f \in Conns
      PROVE  /\ esql'[f].connected = (esql[f].connected /\ f \notin {e})
             /\ esql'[f].rtimers = esql[f].rtimers
             /\ esql'[f].current = esql[f].current
  <2>1. CASE f = e
    BY <1>3, <2>1
  <2>2. CASE f # e
    <3>1. esql'[f] = esql[f]
      BY <1>1, <1>2, <2>2
    <3>2. esql[f].connected \in BOOLEAN
      BY <1>1 DEF EsqlRec
    <3> QED BY <2>2, <3>1, <3>2
  <2> QED BY <2>1, <2>2
<1>6. pool'.connected = pool.connected
  BY <1>2, CountWithout DEF PoolWithout, TypeInv
<1>7. Closes({e})
  BY <1>2, <1>4, <1>5, <1>6 DEF Closes
<1> QED BY <1>7 DEF Changes

LEMMA FlagsTimeoutFires ==
  \A e \in Conns : TypeInv /\ CountInv /\ reconnect # "on" /\ TimeoutFires(e) => Changes
<1> SUFFICES ASSUME NEW e \in Conns, TypeInv, CountInv, reconnect # "on", TimeoutFires(e)
             PROVE  Changes
  OBVIOUS
<1> DEFINE s == [esql[e] EXCEPT !.timeout = FALSE]
<1>1. s \in EsqlRec /\ s.current = esql[e].current /\ s.rtimers = esql[e].rtimers
  BY ObjectTyped DEF TypeInv, EsqlRec
<1> QED BY <1>1, FlagsCloseAndRetry DEF TimeoutFires, LoopTurn

\* No reconnect timer runs that nobody asked for.
LEMMA FlagsReconnectFires == \A e \in Conns : TypeInv /\ CountInv /\ ReconnectFires(e) => Changes
  BY DEF CountInv, NoTimers, ReconnectFires

\* Freeing a result touches the client alone.
LEMMA ClearedKeeps ==
  ASSUME TypeInv, FreesError \/ UNCHANGED esql
  PROVE  \A e \in Conns : /\ esql'[e].connected = esql[e].connected
                          /\ esql'[e].rtimers = esql[e].rtimers
                          /\ esql'[e].current = esql[e].current
                          /\ esql'[e].fdh = esql[e].fdh /\ esql'[e].stray = esql[e].stray
<1> SUFFICES ASSUME NEW e \in Conns
             PROVE  /\ esql'[e].connected = esql[e].connected
                    /\ esql'[e].rtimers = esql[e].rtimers
                    /\ esql'[e].current = esql[e].current
                    /\ esql'[e].fdh = esql[e].fdh /\ esql'[e].stray = esql[e].stray
  OBVIOUS
<1>1. PICK m : esql'[e] \in {esql[e], [esql[e] EXCEPT !.m = m]}
  BY DEF TypeInv, TypeOK, FreesError
<1>2. esql[e] \in EsqlRec
  BY ObjectTyped DEF TypeInv
<1> QED BY <1>1, <1>2 DEF EsqlRec

LEMMA FlagsResultEvent == TypeInv /\ CountInv /\ (ResultEvent \/ ResultUnref) => Changes
<1> SUFFICES ASSUME TypeInv, CountInv, ResultEvent \/ ResultUnref PROVE Changes
  OBVIOUS
<1>1. \A e \in Conns : Settling(e) => Settling(e)'
  BY DEF ResultEvent, ResultUnref, Settling
<1>2. FreesError \/ UNCHANGED esql
  BY DEF ResultEvent, ResultUnref, ResultReturned
<1>3. Undisturbed
  BY <1>1, <1>2, ClearedKeeps DEF Undisturbed
<1> QED BY <1>3 DEF Changes, Still, ResultEvent, ResultUnref, history

LEMMA FlagsIo == \A e \in Conns : TypeInv /\ CountInv /\ Io(e) => Changes
<1> SUFFICES ASSUME NEW e \in Conns, TypeInv, CountInv, Io(e) PROVE Changes
  OBVIOUS
<1>1. esql[e] \in EsqlRec /\ esql[e].m \in MYSAC /\ esql \in [Conns -> EsqlRec]
  BY ObjectTyped DEF TypeInv, TypeOK
<1>2. \A f \in Conns \ {e} : esql'[f] = esql[f]
  BY <1>1 DEF Io, IoWait, IoDone, IoFail
<1>3. /\ esql'[e].connected = esql[e].connected /\ esql'[e].rtimers = esql[e].rtimers
      /\ esql'[e].current = esql[e].current
  <2>1. CASE IoWait(e)
    <3>1. PICK m \in MYSAC : esql'[e] = Active([esql[e] EXCEPT !.m = m], run.h, "armed")
      BY <1>1, <2>1, IoTyped DEF IoWait
    <3> DEFINE s == [esql[e] EXCEPT !.m = m]
    <3>2. /\ s \in EsqlRec /\ s.connected = esql[e].connected
          /\ s.rtimers = esql[e].rtimers /\ s.current = esql[e].current
      BY <1>1, <3>1 DEF EsqlRec
    <3> HIDE DEF s
    <3>3. esql'[e] = Active(s, run.h, "armed")
      BY <3>1 DEF s
    <3> QED BY <3>2, <3>3, ActiveKeeps
  <2>2. CASE IoDone(e) \/ IoFail(e)
    <3>1. PICK m : esql'[e] = [esql[e] EXCEPT !.m = m]
      BY <1>1, <2>2 DEF IoDone, IoFail
    <3> QED BY <1>1, <3>1 DEF EsqlRec
  <2> QED BY <2>1, <2>2 DEF Io
<1>4. run.at \notin {"ready", "next"} /\ pool' = pool /\ told' = told
  BY DEF Io, IoWait, IoDone, IoFail, At, history
<1> QED BY <1>2, <1>3, <1>4, FlagsElsewhere

LEMMA FlagsCompleteInit == \A e \in Conns : TypeInv /\ CountInv /\ CompleteInit(e) => Changes
<1> SUFFICES ASSUME NEW e \in Conns, TypeInv, CountInv, CompleteInit(e) PROVE Changes
  OBVIOUS
<1>1. /\ run.at = "complete" /\ esql[e].current = "init"
      /\ esql' = [esql EXCEPT ![e].connected = TRUE]
      /\ Pooled => pool'.count = pool.count + 1
      /\ ~Pooled => told' = Announced("connect")
      /\ run'.e = e /\ run'.at \in {"ready", "next"}
  BY DEF CompleteInit, At, Goto, Counted, TypeInv, TypeOK
<1>2. ASSUME NEW f \in Conns
      PROVE  /\ esql'[f].connected = (esql[f].connected \/ f = e)
             /\ esql'[f].rtimers = esql[f].rtimers /\ esql'[f].current = esql[f].current
  <2>1. esql[f] \in EsqlRec /\ esql \in [Conns -> EsqlRec]
    BY ObjectTyped DEF TypeInv, TypeOK
  <2>2. CASE f = e
    <3>1. esql'[f] = [esql[f] EXCEPT !.connected = TRUE]
      BY <1>1, <2>1, <2>2
    <3> QED BY <2>1, <2>2, <3>1 DEF EsqlRec
  <2>3. CASE f # e
    <3>1. esql'[f] = esql[f]
      BY <1>1, <2>1, <2>3
    <3>2. esql[f].connected \in BOOLEAN
      BY <2>1 DEF EsqlRec
    <3> QED BY <2>3, <3>1, <3>2
  <2> QED BY <2>2, <2>3
<1>3. Opens(e)
  BY <1>1, <1>2 DEF Opens, Settling
<1> QED BY <1>3 DEF Changes

LEMMA FlagsComplete == \A e \in Conns : TypeInv /\ CountInv /\ Complete(e) => Changes
<1> SUFFICES ASSUME NEW e \in Conns, TypeInv, CountInv, CompleteQuery(e) \/ CompleteOther(e)
             PROVE  Changes
  BY FlagsCompleteInit DEF Complete
<1>1. esql' = esql /\ pool' = pool /\ told' = told /\ run.at = "complete"
  BY DEF CompleteQuery, CompleteOther, At, history
<1> QED BY <1>1, FlagsElsewhere

\* The next call ends the settling of run.e: it is idle, switches or queries then.
LEMMA FlagsNextCall == \A e \in Conns : TypeInv /\ CountInv /\ NextCall(e) => Changes
<1> SUFFICES ASSUME NEW e \in Conns, TypeInv, CountInv, NextCall(e) PROVE Changes
  OBVIOUS
<1>1. run.e = e /\ pool' = pool /\ told' = told
  BY DEF NextCall, NextIdle, NextDatabase, NextQuery, At, history
<1>2. esql[e] \in EsqlRec /\ esql \in [Conns -> EsqlRec]
  BY ObjectTyped DEF TypeInv, TypeOK
<1>3. ASSUME NEW f \in Conns
      PROVE  /\ esql'[f].connected = esql[f].connected /\ esql'[f].rtimers = esql[f].rtimers
             /\ esql'[f].current = IF f = e THEN esql'[e].current ELSE esql[f].current
             /\ esql'[e].current # "init"
  <2>1. CASE NextIdle(e)
    <3>1. esql' = [esql EXCEPT ![e] = Finished(esql[e])]
      BY <2>1 DEF NextIdle
    <3>2. /\ Finished(esql[e]).connected = esql[e].connected
          /\ Finished(esql[e]).rtimers = esql[e].rtimers /\ Finished(esql[e]).current = "none"
      BY <1>2 DEF Finished, EsqlRec
    <3> QED BY <1>2, <3>1, <3>2
  <2>2. CASE NextDatabase(e)
    <3> DEFINE s == Finished(esql[e])
    <3>0. esql[e].queue # <<>> /\ esql[e].queue \in Seq(Call) /\ Head(esql[e].queue).fn = "database_set"
      BY <1>2, <2>2 DEF NextDatabase, EsqlRec
    <3>1. PICK d, q :
            /\ d \in DbNames
            /\ esql' = [esql EXCEPT ![e] = Active([DatabaseSwitched(s, d) EXCEPT !.queue = q], "fdh", "off")]
      <4>1. Head(esql[e].queue).db \in DbNames
        BY <3>0 DEF Call
      <4> QED BY <2>2, <4>1 DEF NextDatabase
    <3>2. /\ s \in EsqlRec /\ s.connected = esql[e].connected
          /\ s.rtimers = esql[e].rtimers /\ s.current = "none"
      BY <1>2 DEF Finished, EsqlRec, Currents
    <3> HIDE DEF s
    <3> DEFINE w == DatabaseSwitched(s, d)
               r == Active([w EXCEPT !.queue = q], "fdh", "off")
    <3>3. w \in EsqlRec /\ w.connected = s.connected /\ w.rtimers = s.rtimers /\ w.current # "init"
      BY <3>1, <3>2, SwitchKeeps, DatabaseSwitchedTyped
    <3>5. esql' = [esql EXCEPT ![e] = r]
      BY <3>1
    <3> HIDE DEF w
    <3>4. r.connected = w.connected /\ r.rtimers = w.rtimers /\ r.current = w.current
      BY <3>3 DEF Active, EsqlRec
    <3> HIDE DEF r
    <3> QED BY <1>2, <3>2, <3>3, <3>4, <3>5
  <2>3. CASE NextQuery(e)
    <3> DEFINE all == Rebalanced(e)
    <3>1. PICK m, id, t :
            /\ esql' = [all EXCEPT ![e] = t]
            /\ t \in {Taken([all[e] EXCEPT !.m = m], id), Active(Taken([all[e] EXCEPT !.m = m], id), "fdh", "off")}
      BY <2>3 DEF NextQuery
    <3>2. /\ all \in [Conns -> EsqlRec]
          /\ \A g \in Conns : /\ all[g].connected = esql[g].connected
                              /\ all[g].rtimers = esql[g].rtimers
                              /\ all[g].current = esql[g].current
      BY RebalancedTyped DEF TypeInv
    <3> HIDE DEF all
    <3>3. all[e] \in EsqlRec
      BY <3>2
    <3>4. t.connected = all[e].connected /\ t.rtimers = all[e].rtimers /\ t.current = "query"
      BY <3>1, <3>3 DEF Taken, Active, EsqlRec
    <3> QED BY <3>1, <3>2, <3>4
  <2> QED BY <2>1, <2>2, <2>3 DEF NextCall
<1>4. ASSUME NEW f \in Conns PROVE Settling(f) => esql'[f].current # "init"
  BY <1>1, <1>3 DEF Settling
<1>5. Undisturbed
  BY <1>3, <1>4 DEF Undisturbed
<1> QED BY <1>1, <1>5 DEF Changes, Still

LEMMA FlagsError ==
  \A e \in Conns : TypeInv /\ CountInv /\ reconnect # "on" /\ Error(e) => Changes
<1> SUFFICES ASSUME NEW e \in Conns, TypeInv, CountInv, reconnect # "on", Error(e)
             PROVE  Changes
  OBVIOUS
<1>1. CASE ErrorQuery(e) \/ ErrorOther(e)
  <2>1. esql' = esql /\ pool' = pool /\ (HasConnectCb \/ told' = told) /\ run.at = "error"
    BY <1>1 DEF ErrorQuery, ErrorOther, At, history
  <2> QED BY <2>1, FlagsElsewhere
<1>2. CASE Down(e)
  <2>1. esql[e] \in EsqlRec
    BY ObjectTyped DEF TypeInv
  <2>2. CloseAndRetry(e, esql[e]) /\ run.at = "down"
    BY <1>2 DEF Down, At
  <2> QED BY <2>1, <2>2, FlagsCloseAndRetry
<1> QED BY <1>1, <1>2 DEF Error

LEMMA FlagsCbReturns == \A e \in Conns : TypeInv /\ CountInv /\ CbReturns(e) => Changes
<1> SUFFICES ASSUME NEW e \in Conns, TypeInv, CountInv, CbReturns(e) PROVE Changes
  OBVIOUS
<1>1. ASSUME NEW f \in Conns
      PROVE  /\ esql'[f].connected = esql[f].connected /\ esql'[f].rtimers = esql[f].rtimers
             /\ esql'[f].current = esql[f].current
  BY ClearedKeeps DEF CbReturns, ConnectCbReturns, QueryCbReturns, ResultReturned, history
<1>2. ASSUME NEW f \in Conns, Settling(f) PROVE Settling(f)'
  <2>1. run.at = "ready" /\ Goto("next")
    BY <1>2 DEF Settling, CbReturns, ConnectCbReturns, QueryCbReturns, At
  <2> QED BY <1>2, <2>1 DEF Settling, Goto, TypeInv, TypeOK
<1>3. Undisturbed
  BY <1>1, <1>2 DEF Undisturbed
<1>4. pool' = pool /\ told' = told
  BY DEF CbReturns, ConnectCbReturns, QueryCbReturns, history
<1> QED BY <1>3, <1>4 DEF Changes, Still

LEMMA FlagsStep == TypeInv /\ CountInv /\ reconnect # "on" /\ [Next]_vars => Changes
<1> SUFFICES ASSUME TypeInv, CountInv, reconnect # "on", [Next]_vars PROVE Changes
  OBVIOUS
<1>1. CASE UNCHANGED vars
  <2>1. \A e \in Conns : Settling(e) => Settling(e)'
    BY <1>1 DEF Settling, vars
  <2>2. Undisturbed
    BY <1>1, <2>1 DEF Undisturbed, vars
  <2> QED BY <1>1, <2>2 DEF Changes, Still, vars, history
<1>2. ASSUME NEW e \in Conns, Sources(e) PROVE Changes
  BY <1>2, FlagsSources, FlagsTimeoutFires, FlagsReconnectFires DEF Sources
<1>3. ASSUME NEW e \in Conns, Chain(e) PROVE Changes
  BY <1>3, FlagsIo, FlagsComplete, FlagsNextCall, FlagsError, FlagsCbReturns DEF Chain
<1> QED BY <1>1, <1>2, <1>3, FlagsProgram, FlagsResultEvent DEF Next

LEMMA CountStep == TypeInv /\ CountInv /\ reconnect # "on" /\ [Next]_vars => CountInv'
  BY FlagsStep, StillCounts, ClosesCounts, OpensCounts DEF Changes

\* Nobody sets the flag back to what calloc left: if it is untouched now it was before.
LEMMA NeverBefore == [Next]_vars /\ reconnect' = "never" => reconnect = "never"
<1>1. ASSUME Program, reconnect' = "never" PROVE reconnect = "never"
  BY <1>1 DEF Program, Connect, Disconnect, DatabaseSet, TimeoutSet, ReconnectSet, QueryCallbackSet,
              QueryStart, QueryQueue, QueryRefused, Issue
<1>2. ASSUME NEW e \in Conns, Sources(e) PROVE reconnect' = reconnect
  BY <1>2 DEF Sources, FdReady, RunJob, TimeoutFires, ReconnectFires, CloseAndRetry
<1>3. ASSUME NEW e \in Conns, Chain(e) PROVE reconnect' = reconnect
  <2>1. CASE Io(e)
    BY <2>1 DEF Io, IoWait, IoDone, IoFail
  <2>2. CASE Complete(e)
    BY <2>2 DEF Complete, CompleteInit, CompleteQuery, CompleteOther
  <2>3. CASE NextCall(e)
    BY <2>3 DEF NextCall, NextIdle, NextDatabase, NextQuery
  <2>4. CASE Error(e)
    BY <2>4 DEF Error, ErrorQuery, ErrorOther, Down, CloseAndRetry
  <2>5. CASE CbReturns(e)
    BY <2>5 DEF CbReturns, ConnectCbReturns, QueryCbReturns
  <2> QED BY <1>3, <2>1, <2>2, <2>3, <2>4, <2>5 DEF Chain
<1>4. ResultEvent \/ ResultUnref => reconnect' = reconnect
  BY DEF ResultEvent, ResultUnref
<1> QED BY <1>1, <1>2, <1>3, <1>4 DEF Next, vars

CountUntilSet == reconnect = "never" => CountInv

\* While reconnecting has not been set, e_connected of a pool is the number of
\* members whose connected flag is set, through every order of handshakes,
\* failures, timeouts, disconnects and dials.
THEOREM PoolCountCorrect == Spec => []PoolCount
<1>1. Init => CountUntilSet
  BY CountInit DEF CountUntilSet
<1>2. TypeInv /\ CountUntilSet /\ [Next]_vars => CountUntilSet'
  BY NeverBefore, CountStep DEF CountUntilSet
<1>3. CountUntilSet => PoolCount
  BY DEF CountUntilSet, CountInv, PoolCount
<1> QED BY <1>1, <1>2, <1>3, TypeInvariant, PTL DEF Spec
----------------------------------------------------------------------------
(* What the program was told *)

ToldInv ==
  /\ ~Pooled => ~told.again /\ (told.what = "connect" <=> esql[0].connected)
  /\ Pooled /\ pool.connected /\ Connected = {} => told.what = "disconnect"

LEMMA ToldInit == Init => ToldInv
  BY DEF Init, ToldInv, NewEsql, Conns

\* The pool's count being exact, closing its last member is noticed.
LEMMA ClosesTells == \A S \in SUBSET Conns : TypeInv /\ CountInv /\ ToldInv /\ Closes(S) => ToldInv'
<1> SUFFICES ASSUME NEW S \in SUBSET Conns, TypeInv, CountInv, ToldInv, Closes(S) PROVE ToldInv'
  OBVIOUS
<1>1. CASE ~Pooled
  <2>1. 0 \in Conns /\ Conns = {0}
    BY <1>1 DEF Conns
  <2>2. TellsDisconnect(S) <=> (0 \in S /\ esql[0].connected)
    BY <1>1, <2>1 DEF TellsDisconnect
  <2>3. esql'[0].connected = (esql[0].connected /\ 0 \notin S)
    BY <2>1 DEF Closes
  <2>4. told' = IF TellsDisconnect(S) THEN Announced("disconnect") ELSE told
    BY DEF Closes
  <2>5. CASE TellsDisconnect(S)
    BY <1>1, <2>2, <2>3, <2>4, <2>5 DEF ToldInv, Announced
  <2>6. CASE ~TellsDisconnect(S)
    BY <1>1, <2>2, <2>3, <2>4, <2>6 DEF ToldInv
  <2> QED BY <2>5, <2>6
<1>2. CASE Pooled
  <2> SUFFICES ASSUME pool'.connected, Connected' = {} PROVE told'.what = "disconnect"
    BY <1>2 DEF ToldInv
  <2>1. Connected' = Connected \ S /\ pool.connected
    BY DEF Connected, Closes
  <2>2. CASE \E e \in S : esql[e].connected
    <3>1. PoolWithout(S).count = pool.count - Cardinality(Connected) + Cardinality(Connected \ S)
      BY <1>2, CountWithout DEF TypeInv
    <3>2. Cardinality(Connected \ S) = 0
      BY <2>1, FS_EmptySet
    <3>3. PoolWithout(S).count = 0
      BY <1>2, <3>1, <3>2, ConnectedFinite DEF CountInv
    <3>4. TellsDisconnect(S)
      BY <2>2, <3>3 DEF TellsDisconnect
    <3> QED BY <3>4 DEF Closes, Announced
  <2>3. CASE ~\E e \in S : esql[e].connected
    <3>1. Connected = {}
      BY <2>1, <2>3 DEF Connected
    <3>2. told' = told
      BY <2>3 DEF Closes, TellsDisconnect
    <3> QED BY <1>2, <2>1, <3>1, <3>2 DEF ToldInv
  <2> QED BY <2>2, <2>3
<1> QED BY <1>1, <1>2

LEMMA ToldStep ==
  TypeInv /\ CountInv /\ ToldInv /\ ~HasConnectCb /\ reconnect # "on" /\ [Next]_vars => ToldInv'
<1> SUFFICES ASSUME TypeInv, CountInv, ToldInv, ~HasConnectCb, reconnect # "on", [Next]_vars PROVE ToldInv'
  OBVIOUS
<1>1. 0 \in Conns
  BY DEF Conns
<1>2. CASE Still
  <2>1. Connected' = Connected
    BY <1>2 DEF Still, Undisturbed, Connected
  <2>2. esql'[0].connected = esql[0].connected /\ pool' = pool /\ told' = told
    BY <1>1, <1>2 DEF Still, Undisturbed
  <2> QED BY <2>1, <2>2 DEF ToldInv
<1>3. ASSUME NEW e \in Conns, Opens(e) PROVE ToldInv'
  <2>1. e \in Connected'
    BY <1>3 DEF Opens, Connected
  <2>2. ~Pooled => e = 0
    BY DEF Conns
  <2>3. ~esql[e].connected
    BY <1>3 DEF CountInv, InitSettles, Settling, Opens
  <2>4. CASE ~Pooled
    <3>1. ~esql[0].connected /\ esql'[0].connected
      BY <1>3, <2>1, <2>2, <2>3, <2>4 DEF Connected
    <3>2. told' = Announced("connect")
      BY <1>3, <2>4 DEF Opens
    <3> QED BY <2>4, <3>1, <3>2 DEF ToldInv, Announced
  <2>5. CASE Pooled
    BY <2>1, <2>5 DEF ToldInv
  <2> QED BY <2>4, <2>5
<1> QED BY <1>2, <1>3, FlagsStep, ClosesTells DEF Changes

ToldUntilSet == reconnect = "never" => CountInv /\ (HasConnectCb \/ ToldInv)

LEMMA ToldInvariant == Spec => []ToldUntilSet
<1>1. Init => ToldUntilSet
  BY CountInit, ToldInit DEF ToldUntilSet
<1>2. TypeInv /\ ToldUntilSet /\ [Next]_vars => ToldUntilSet'
  BY NeverBefore, CountStep, ToldStep DEF ToldUntilSet
<1> QED BY <1>1, <1>2, TypeInvariant, PTL DEF Spec

\* Without a connect callback and while reconnecting has not been set, a plain
\* object is connected exactly if the last event the program was told is CONNECT,
\* in its query callbacks, too: no order of failures, timeouts, dials and
\* disconnects tells it twice or not at all.
THEOREM ToldRightCorrect == Spec => []ToldRight
<1>1. ToldUntilSet => ToldRight
  BY DEF ToldUntilSet, ToldInv, ToldRight
<1> QED BY <1>1, ToldInvariant, PTL

\* A pool of any size whose last member went has told the program so: the
\* count, being exact, reaches zero with it.
THEOREM PoolTellsLossCorrect == Spec => []PoolTellsLoss
<1>1. ToldUntilSet => PoolTellsLoss
  BY DEF ToldUntilSet, ToldInv, PoolTellsLoss
<1> QED BY <1>1, ToldInvariant, PTL
=============================================================================
