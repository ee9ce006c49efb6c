-------------------------- MODULE EsqlQueryProofs --------------------------
(***************************************************************************)
(* Proofs about the queries of the event loop: where a query is, what data *)
(* goes with it, how often it ends and in which order, for pools of any    *)
(* size and any number of queries.                                         *)
(***************************************************************************)
EXTENDS EsqlProofs, SequenceTheorems

USE SizeAssumption, PooledAssumption, MaxIdAssumption, SettingsAssumption,
    BudgetAssumption, DbNamesAssumption

----------------------------------------------------------------------------
(* The identifiers in a queue *)

IdsOf(q) == {id \in Ids : \E i \in DOMAIN q : q[i].id = id}

\* Queries are in a queue in the order in which they were accepted; a switch
\* (identifier 0) may be anywhere.
Ordered(q) == \A i, j \in DOMAIN q :
  i < j /\ q[i].id \in Ids /\ q[j].id \in Ids => q[i].id < q[j].id

LEMMA NoIds == IdsOf(<<>>) = {} /\ Ordered(<<>>)
  BY DEF IdsOf, Ordered

LEMMA IdsOfAppend ==
  ASSUME NEW q \in Seq(Call), NEW c \in Call
  PROVE  /\ IdsOf(Append(q, c)) = IdsOf(q) \cup {id \in Ids : c.id = id}
         /\ Ordered(q) /\ (\A id \in IdsOf(q) : c.id \in Ids => id < c.id) => Ordered(Append(q, c))
<1> DEFINE r == Append(q, c)
<1>1. Len(q) \in Nat /\ DOMAIN q = 1 .. Len(q) /\ DOMAIN r = 1 .. (Len(q) + 1)
  OBVIOUS
<1>2. r[Len(q) + 1] = c /\ \A i \in DOMAIN q : r[i] = q[i]
  OBVIOUS
<1> HIDE DEF r
<1>3. \A i \in DOMAIN r : i \in DOMAIN q \/ i = Len(q) + 1
  BY <1>1
<1>4. IdsOf(r) = IdsOf(q) \cup {id \in Ids : c.id = id}
  BY <1>1, <1>2, <1>3 DEF IdsOf
<1>5. ASSUME Ordered(q), \A id \in IdsOf(q) : c.id \in Ids => id < c.id,
             NEW i \in DOMAIN r, NEW j \in DOMAIN r, i < j, r[i].id \in Ids, r[j].id \in Ids
      PROVE  r[i].id < r[j].id
  <2>1. i \in DOMAIN q /\ r[i] = q[i]
    BY <1>1, <1>2, <1>5
  <2>2. r[i].id \in IdsOf(q)
    BY <1>5, <2>1 DEF IdsOf
  <2>3. CASE j \in DOMAIN q
    BY <1>2, <1>5, <2>1, <2>3 DEF Ordered
  <2>4. CASE j = Len(q) + 1
    BY <1>2, <1>5, <2>2, <2>4
  <2> QED BY <1>3, <2>3, <2>4
<1>6. Ordered(q) /\ (\A id \in IdsOf(q) : c.id \in Ids => id < c.id) => Ordered(r)
  BY <1>5 DEF Ordered
<1> QED BY <1>4, <1>6 DEF r

\* Popping the head of a queue takes its identifier away, and no other.
LEMMA IdsOfTail ==
  ASSUME NEW q \in Seq(Call), q # <<>>, Ordered(q)
  PROVE  /\ IdsOf(Tail(q)) = IdsOf(q) \ {Head(q).id}
         /\ Ordered(Tail(q))
         /\ Head(q).id \in Ids => /\ Head(q).id \in IdsOf(q)
                                  /\ \A id \in IdsOf(Tail(q)) : Head(q).id < id
<1> DEFINE r == Tail(q)
<1>1. Len(q) \in Nat \ {0} /\ DOMAIN q = 1 .. Len(q) /\ DOMAIN r = 1 .. (Len(q) - 1) /\ Head(q) = q[1]
  OBVIOUS
<1>2. \A i \in DOMAIN r : i + 1 \in DOMAIN q /\ r[i] = q[i + 1]
  OBVIOUS
<1> HIDE DEF r
<1>3. \A j \in DOMAIN q : j = 1 \/ (j - 1 \in DOMAIN r /\ r[j - 1] = q[j])
  <2> SUFFICES ASSUME NEW j \in DOMAIN q, j # 1 PROVE j - 1 \in DOMAIN r /\ r[j - 1] = q[j]
    OBVIOUS
  <2>1. j - 1 \in DOMAIN r /\ (j - 1) + 1 = j
    BY <1>1
  <2> QED BY <1>2, <2>1
<1>4. Head(q).id \in Ids => \A id \in IdsOf(r) : Head(q).id < id
  <2> SUFFICES ASSUME Head(q).id \in Ids, NEW id \in IdsOf(r) PROVE Head(q).id < id
    OBVIOUS
  <2>1. PICK i \in DOMAIN r : r[i].id = id
    BY DEF IdsOf
  <2>2. i + 1 \in DOMAIN q /\ q[i + 1].id = id /\ 1 < i + 1 /\ 1 \in DOMAIN q /\ id \in Ids
    BY <1>1, <1>2, <2>1 DEF IdsOf
  <2> QED BY <1>1, <2>2 DEF Ordered
<1>5. IdsOf(r) \subseteq IdsOf(q) \ {Head(q).id}
  <2> SUFFICES ASSUME NEW id \in IdsOf(r) PROVE id \in IdsOf(q) /\ id # Head(q).id
    OBVIOUS
  <2>1. id \in Ids /\ id \in IdsOf(q)
    BY <1>2 DEF IdsOf
  <2> QED BY <1>4, <2>1, ConstantsTyped
<1>6. IdsOf(q) \ {Head(q).id} \subseteq IdsOf(r)
  BY <1>1, <1>3 DEF IdsOf
<1>7. Ordered(r)
  <2> SUFFICES ASSUME NEW i \in DOMAIN r, NEW j \in DOMAIN r, i < j, r[i].id \in Ids, r[j].id \in Ids
               PROVE  r[i].id < r[j].id
    BY DEF Ordered
  <2>1. i + 1 < j + 1
    BY <1>1
  <2> QED BY <1>2, <2>1 DEF Ordered
<1>8. Head(q).id \in Ids => Head(q).id \in IdsOf(q)
  BY <1>1 DEF IdsOf
<1> QED BY <1>4, <1>5, <1>6, <1>7, <1>8 DEF r

----------------------------------------------------------------------------
(* The inductive invariant *)

Waiters(e) == IdsOf(esql[e].queue)
Runs(e, id) == esql[e].current = "query" /\ esql[e].curId = id

\* Queued queries are accepted ones without an outcome, each in one queue and
\* under way nowhere; no two members have the same query under way.
Placed ==
  /\ \A e \in Conns : Ordered(esql[e].queue)
  /\ \A e, f \in Conns : \A id \in Waiters(e) \cap Waiters(f) : e = f
  /\ \A e, f \in Conns : \A id \in Waiters(e) : ~Runs(f, id)
  /\ \A e \in Conns : \A id \in Waiters(e) : id <= lastId /\ id \notin Resolved
  /\ \A e, f \in Conns : \A id \in Ids : Runs(e, id) /\ Runs(f, id) => e = f
  /\ \A e \in Conns : \A id \in Ids : Runs(e, id) => id <= lastId
  /\ \A id \in Resolved : id <= lastId

\* The hash holds the data of the queued queries, and theirs only; a query under
\* way has its own.
WithData ==
  /\ \A id \in Ids : hash[id] = IF \E e \in Conns : id \in Waiters(e) THEN DataOf(id) ELSE NoData
  /\ \A e \in Conns : \A id \in Ids : Runs(e, id) => esql[e].curData = DataOf(id)

\* Queries wait behind the one under way, and only while there is a call or no connection.
Behind ==
  /\ \A e \in Conns : esql[e].current = "none" /\ esql[e].connected => Waiters(e) = {}
  /\ ~Pooled => \A e \in Conns : \A id \in Ids \ Resolved :
                  Runs(e, id) => \A later \in Waiters(e) : id < later

\* An object that nothing but its job can wake up, whose client is in no exchange
\* that the job could finish.
Detached(s) ==
  /\ s.fdh = "none" /\ s.stray = "none"
  /\ s.m.proto \in {"start", "auth", "failed"}
  /\ s.job => s.m.proto # "auth"

\* A query with an outcome that is still the call under way is the one whose
\* handlers run, or was left there by esql_event_error when it disconnected.
Answering(e) == run.e = e /\ run.at \in {"result", "failed", "next", "down"}
Parked(e) ==
  /\ Detached(esql[e])
  /\ run.e = e => /\ run.at # "complete"
                  /\ run.at = "io" => esql[e].m.proto # "auth" /\ ~esql[e].job

Control ==
  /\ run.at = "ready" => esql[run.e].current = "init"
  /\ run.at \in {"result", "failed"} =>
       esql[run.e].current \in {"query", "init"} /\ esql[run.e].curId \in Resolved
  /\ run.at = "next" /\ esql[run.e].current = "query" => esql[run.e].curId \in Resolved
  /\ \A id \in callbacks \cap Resolved :
       run.at \in {"result", "failed"} /\ id = esql[run.e].curId
  /\ \A e \in Conns : esql[e].current = "query" /\ esql[e].curId \in Resolved =>
       Answering(e) \/ Parked(e)

QueryInv == TypeInv /\ Placed /\ WithData /\ Behind /\ Control /\ AnsweredOnce

----------------------------------------------------------------------------
(* What a step does to the queries: nothing, or one of four things *)

\* One object, s before and r after a step that moves no query.
KeepsQueue(s, r) ==
  /\ IdsOf(r.queue) = IdsOf(s.queue)
  /\ Ordered(s.queue) => Ordered(r.queue)
KeepsCall(s, r) ==
  /\ r.current = "query" => s.current = "query" /\ r.curData = s.curData
  /\ s.current \in {"query", "init"} => r.curId = s.curId
  /\ s.current = "query" => r.current \in {"query", "init"}
  /\ s.current = "init" => r.current = "init"
  /\ r.current = "none" /\ r.connected => s.current = "none" /\ s.connected
Keeps(s, r) == KeepsQueue(s, r) /\ KeepsCall(s, r)

\* No query moves, but one with an outcome may be forgotten, and so may one that
\* is dialled over.
Rests ==
  /\ UNCHANGED <<lastId, hash>> /\ Resolved' = Resolved
  /\ \A e \in Conns :
       LET s == esql[e]
           r == esql'[e]
       IN /\ KeepsQueue(s, r)
          /\ r.current = "query" => s.current = "query" /\ r.curId = s.curId /\ r.curData = s.curData
          /\ s.current = "query" => r.current \in {"query", "init"} \/ s.curId \in Resolved
          /\ r.current = "none" /\ r.connected =>
               \/ s.current = "none" /\ s.connected
               \/ IdsOf(r.queue) = {}

\* A query is accepted and is the call under way at once.
Starts(t) ==
  /\ lastId + 1 \in Ids /\ lastId' = lastId + 1 /\ hash' = hash /\ Resolved' = Resolved
  /\ esql[t].current = "none" /\ esql[t].connected
  /\ esql'[t].queue = esql[t].queue
  /\ esql'[t].current = "query" /\ esql'[t].curId = lastId + 1 /\ esql'[t].curData = DataOf(lastId + 1)
  /\ \A e \in Conns \ {t} : esql'[e] = esql[e]

\* A query is accepted and queued.
Enters(t) ==
  LET call == [fn |-> "query", id |-> lastId + 1, db |-> NoDb]
  IN /\ lastId + 1 \in Ids /\ lastId' = lastId + 1 /\ Resolved' = Resolved
     /\ hash' = [hash EXCEPT ![lastId + 1] = DataOf(lastId + 1)]
     /\ esql[t].current # "none"
     /\ esql'[t].queue = Append(esql[t].queue, call)
     /\ esql'[t].current = esql[t].current /\ esql'[t].curId = esql[t].curId
     /\ esql'[t].curData = esql[t].curData
     /\ \A e \in Conns \ {t} : esql'[e] = esql[e]

\* Member e takes the query at the head of d's queue, which may be its own.
Takes(e, d) ==
  LET id == Head(esql[d].queue).id
  IN /\ UNCHANGED lastId /\ Resolved' = Resolved
     /\ esql[d].queue # <<>> /\ id \in Ids
     /\ hash' = [hash EXCEPT ![id] = NoData]
     /\ esql[e].current = "query" => esql[e].curId \in Resolved
     /\ esql'[d].queue = Tail(esql[d].queue)
     /\ \A f \in Conns \ {d} : esql'[f].queue = esql[f].queue
     /\ esql'[e].current = "query" /\ esql'[e].curId = id /\ esql'[e].curData = hash[id]
     /\ \A f \in Conns \ {e} :
          /\ esql'[f].current = esql[f].current /\ esql'[f].curId = esql[f].curId
          /\ esql'[f].curData = esql[f].curData /\ esql'[f].connected = esql[f].connected

\* The query under way gets its outcome.
Ends(e) ==
  /\ UNCHANGED <<lastId, hash, esql>>
  /\ esql[e].current = "query" /\ esql[e].curId \notin Resolved
  /\ Resolved' = Resolved \cup {esql[e].curId}

Effect ==
  \/ Rests
  \/ \E t \in Conns : Starts(t) \/ Enters(t)
  \/ \E e, d \in Conns : Takes(e, d)
  \/ \E e \in Conns : Ends(e)

----------------------------------------------------------------------------
(* What that does to the invariant *)

Queries == Placed /\ WithData /\ Behind

LEMMA ResolvedTyped == TypeOK => Resolved \subseteq Ids
  BY DEF TypeOK, Resolved

LEMMA RestsQueries ==
  ASSUME Queries, Rests
  PROVE  Queries'
<1>1. \A e \in Conns : Waiters(e)' = Waiters(e)
  BY DEF Rests, KeepsQueue, Waiters
<1>2. ASSUME NEW e \in Conns, NEW id \in Ids, Runs(e, id)'
      PROVE  Runs(e, id) /\ esql'[e].curData = esql[e].curData
  BY <1>2 DEF Rests, Runs
<1>3. lastId' = lastId /\ hash' = hash /\ Resolved' = Resolved
  BY DEF Rests
<1>4. \A e \in Conns : Waiters(e) \subseteq Ids
  BY DEF Waiters, IdsOf
<1>5. Placed'
  <2>1. \A e \in Conns : Ordered(esql'[e].queue)
    BY DEF Rests, KeepsQueue, Queries, Placed
  <2>2. \A e, f \in Conns : \A id \in Waiters(e)' : ~Runs(f, id)'
    BY <1>1, <1>2, <1>4 DEF Queries, Placed
  <2>3. \A e, f \in Conns : \A id \in Ids : Runs(e, id)' /\ Runs(f, id)' => e = f
    BY <1>2 DEF Queries, Placed
  <2>4. \A e \in Conns : \A id \in Ids : Runs(e, id)' => id <= lastId'
    BY <1>2, <1>3 DEF Queries, Placed
  <2> QED BY <1>1, <1>3, <2>1, <2>2, <2>3, <2>4 DEF Queries, Placed
<1>6. WithData'
  BY <1>1, <1>2, <1>3 DEF Queries, WithData
<1>7. Behind'
  <2>1. \A e \in Conns : esql'[e].current = "none" /\ esql'[e].connected => Waiters(e)' = {}
    BY <1>1 DEF Rests, Waiters, Queries, Behind
  <2>2. ~Pooled => \A e \in Conns : \A id \in Ids \ Resolved' :
                     Runs(e, id)' => \A later \in Waiters(e)' : id < later
    BY <1>1, <1>2, <1>3 DEF Queries, Behind
  <2> QED BY <2>1, <2>2 DEF Behind
<1> QED BY <1>5, <1>6, <1>7 DEF Queries

LEMMA StartsQueries ==
  ASSUME Queries, TypeInv, NEW t \in Conns, Starts(t)
  PROVE  Queries'
<1> DEFINE new == lastId + 1
<1>1. /\ new \in Ids /\ lastId' = new /\ hash' = hash /\ Resolved' = Resolved
      /\ lastId \in Nat /\ \A id \in Ids : id \in Nat /\ (id <= lastId => id < new /\ id <= new)
  BY ConstantsTyped DEF Starts, TypeInv, TypeOK, Ids
<1>2. \A e \in Conns : Waiters(e)' = Waiters(e) /\ esql'[e].queue = esql[e].queue
  BY DEF Starts, Waiters
<1>3. ASSUME NEW e \in Conns, NEW id \in Ids, Runs(e, id)'
      PROVE  \/ e = t /\ id = new /\ esql'[e].curData = DataOf(new)
             \/ e # t /\ Runs(e, id) /\ esql'[e] = esql[e]
  BY <1>3 DEF Starts, Runs
<1>4. \A e \in Conns : Waiters(e) \subseteq Ids
  BY DEF Waiters, IdsOf
<1>5. \A e \in Conns : ~Runs(e, new) /\ new \notin Waiters(e) /\ Waiters(t) = {}
  BY <1>1 DEF Queries, Placed, Behind, Starts
<1> HIDE DEF new
<1>6. Placed'
  <2>1. \A e, f \in Conns : \A id \in Waiters(e)' : ~Runs(f, id)'
    BY <1>2, <1>3, <1>4, <1>5 DEF Queries, Placed
  <2>2. \A e, f \in Conns : \A id \in Ids : Runs(e, id)' /\ Runs(f, id)' => e = f
    BY <1>3, <1>5 DEF Queries, Placed
  <2>3. \A e \in Conns : \A id \in Ids : Runs(e, id)' => id <= lastId'
    BY <1>1, <1>3 DEF Queries, Placed
  <2>4. \A e \in Conns : \A id \in Waiters(e)' : id <= lastId' /\ id \notin Resolved'
    BY <1>1, <1>2, <1>4 DEF Queries, Placed
  <2>5. \A id \in Resolved' : id <= lastId'
    BY <1>1, ResolvedTyped DEF Queries, Placed, TypeInv
  <2>6. /\ \A e \in Conns : Ordered(esql'[e].queue)
        /\ \A e, f \in Conns : \A id \in Waiters(e)' \cap Waiters(f)' : e = f
    BY <1>2 DEF Queries, Placed
  <2> QED BY <2>1, <2>2, <2>3, <2>4, <2>5, <2>6 DEF Placed
<1>7. WithData'
  BY <1>1, <1>2, <1>3 DEF Queries, WithData
<1>8. Behind'
  <2>1. \A e \in Conns : esql'[e].current = "none" /\ esql'[e].connected => Waiters(e)' = {}
    BY <1>2 DEF Starts, Queries, Behind
  <2>2. ~Pooled => \A e \in Conns : \A id \in Ids \ Resolved' :
                     Runs(e, id)' => \A later \in Waiters(e)' : id < later
    BY <1>1, <1>2, <1>3, <1>5 DEF Queries, Behind
  <2> QED BY <2>1, <2>2 DEF Behind
<1> QED BY <1>6, <1>7, <1>8 DEF Queries

LEMMA EndsQueries ==
  ASSUME Queries, TypeInv, NEW e \in Conns, Ends(e)
  PROVE  Queries'
<1> DEFINE id == esql[e].curId
<1>1. /\ lastId' = lastId /\ hash' = hash /\ esql' = esql
      /\ Resolved' = Resolved \cup {id} /\ id \in Ids /\ Runs(e, id)
  BY DEF Ends, Runs, TypeInv, QueryHasId
<1> HIDE DEF id
<1>2. /\ \A f \in Conns : Waiters(f)' = Waiters(f)
      /\ \A f \in Conns, i \in Ids : Runs(f, i)' = Runs(f, i)
  BY <1>1 DEF Waiters, Runs
<1>3. Placed'
  <2>1. \A f \in Conns : id \notin Waiters(f)
    BY <1>1 DEF Queries, Placed
  <2>2. id <= lastId
    BY <1>1 DEF Queries, Placed
  <2>3. \A f \in Conns : \A i \in Waiters(f)' : i <= lastId' /\ i \notin Resolved'
    BY <1>1, <1>2, <2>1 DEF Queries, Placed
  <2>4. \A i \in Resolved' : i <= lastId'
    BY <1>1, <2>2 DEF Queries, Placed
  <2>5. \A f, g \in Conns : \A i \in Waiters(f)' : i \in Ids /\ ~Runs(g, i)'
    BY <1>2 DEF Queries, Placed, Waiters, IdsOf
  <2>6. /\ \A f, g \in Conns : \A i \in Ids : Runs(f, i)' /\ Runs(g, i)' => f = g
        /\ \A f \in Conns : \A i \in Ids : Runs(f, i)' => i <= lastId'
    BY <1>1, <1>2 DEF Queries, Placed
  <2>7. /\ \A f \in Conns : Ordered(esql'[f].queue)
        /\ \A f, g \in Conns : \A i \in Waiters(f)' \cap Waiters(g)' : f = g
    BY <1>1, <1>2 DEF Queries, Placed
  <2> QED BY <2>3, <2>4, <2>5, <2>6, <2>7 DEF Placed
<1>4. WithData'
  BY <1>1, <1>2 DEF Queries, WithData
<1>5. Behind'
  BY <1>1, <1>2 DEF Queries, Behind
<1> QED BY <1>3, <1>4, <1>5 DEF Queries

LEMMA EntersQueries ==
  ASSUME Queries, TypeInv, NEW t \in Conns, Enters(t)
  PROVE  Queries'
<1> DEFINE new == lastId + 1
           call == [fn |-> "query", id |-> new, db |-> NoDb]
<1>1. /\ new \in Ids /\ lastId' = new /\ Resolved' = Resolved
      /\ lastId \in Nat /\ \A id \in Ids : id \in Nat /\ (id <= lastId => id < new /\ id <= new)
  BY ConstantsTyped DEF Enters, TypeInv, TypeOK, Ids
<1>2. call \in Call /\ call.id = new
  BY <1>1, CallTyped
<1>3. /\ esql'[t].queue = Append(esql[t].queue, call) /\ esql[t].queue \in Seq(Call)
      /\ hash' = [hash EXCEPT ![new] = DataOf(new)]
      /\ esql[t].current # "none" /\ esql'[t].current = esql[t].current
      /\ \A e \in Conns \ {t} : esql'[e] = esql[e]
  BY ObjectTyped DEF Enters, TypeInv, EsqlRec
<1>4. ASSUME NEW e \in Conns, NEW id \in Ids
      PROVE  Runs(e, id)' = Runs(e, id) /\ esql'[e].curData = esql[e].curData
  BY DEF Enters, Runs
<1>5. \A e \in Conns : Waiters(e) \subseteq Ids
  BY DEF Waiters, IdsOf
<1> HIDE DEF new, call
<1>6. \A e \in Conns : ~Runs(e, new) /\ new \notin Waiters(e)
  BY <1>1 DEF Queries, Placed
<1>7. \A id \in Waiters(t) : id < new
  BY <1>1, <1>5 DEF Queries, Placed
<1>8. /\ Waiters(t)' = Waiters(t) \cup {new}
      /\ Ordered(esql'[t].queue)
      /\ \A e \in Conns \ {t} : Waiters(e)' = Waiters(e)
  <2>1. {id \in Ids : call.id = id} = {new}
    BY <1>1, <1>2
  <2>2. IdsOf(esql'[t].queue) = IdsOf(esql[t].queue) \cup {new}
    BY <1>2, <1>3, <2>1, IdsOfAppend
  <2>3. Ordered(esql[t].queue) => Ordered(esql'[t].queue)
    BY <1>2, <1>3, <1>7, IdsOfAppend DEF Waiters
  <2> QED BY <1>3, <2>2, <2>3 DEF Waiters, Queries, Placed
<1>9. Placed'
  <2>1. \A e, f \in Conns : \A id \in Waiters(e)' : ~Runs(f, id)'
    BY <1>1, <1>4, <1>5, <1>6, <1>8 DEF Queries, Placed
  <2>2. \A e, f \in Conns : \A id \in Ids : Runs(e, id)' /\ Runs(f, id)' => e = f
    BY <1>4 DEF Queries, Placed
  <2>3. \A e \in Conns : \A id \in Ids : Runs(e, id)' => id <= lastId'
    BY <1>1, <1>4 DEF Queries, Placed
  <2>4. \A e \in Conns : \A id \in Waiters(e)' : id <= lastId' /\ id \notin Resolved'
    <3>1. new \notin Resolved /\ new <= new
      BY <1>1 DEF Queries, Placed
    <3> QED BY <1>1, <1>5, <1>8, <3>1 DEF Queries, Placed
  <2>5. \A id \in Resolved' : id <= lastId'
    BY <1>1, ResolvedTyped DEF Queries, Placed, TypeInv
  <2>6. \A e, f \in Conns : \A id \in Waiters(e)' \cap Waiters(f)' : e = f
    BY <1>6, <1>8 DEF Queries, Placed
  <2>7. \A e \in Conns : Ordered(esql'[e].queue)
    BY <1>3, <1>8 DEF Queries, Placed
  <2> QED BY <2>1, <2>2, <2>3, <2>4, <2>5, <2>6, <2>7 DEF Placed
<1>10. WithData'
  <2>1. \A e \in Conns : \A id \in Ids : Runs(e, id)' => esql'[e].curData = DataOf(id)
    BY <1>4 DEF Queries, WithData
  <2>2. ASSUME NEW id \in Ids
        PROVE  hash'[id] = IF \E e \in Conns : id \in Waiters(e)' THEN DataOf(id) ELSE NoData
    <3>1. CASE id = new
      BY <1>1, <1>3, <1>8, <3>1 DEF TypeInv, TypeOK
    <3>2. CASE id # new
      <4>1. (\E e \in Conns : id \in Waiters(e)') <=> (\E e \in Conns : id \in Waiters(e))
        BY <1>8, <3>2
      <4>2. hash'[id] = hash[id]
        BY <1>3, <3>2 DEF TypeInv, TypeOK
      <4> QED BY <4>1, <4>2 DEF Queries, WithData
    <3> QED BY <3>1, <3>2
  <2> QED BY <2>1, <2>2 DEF WithData
<1>11. Behind'
  <2>1. \A e \in Conns : esql'[e].current = "none" /\ esql'[e].connected => Waiters(e)' = {}
    BY <1>3, <1>8 DEF Queries, Behind
  <2>2. ~Pooled => \A e \in Conns : \A id \in Ids \ Resolved' :
                     Runs(e, id)' => \A later \in Waiters(e)' : id < later
    BY <1>1, <1>4, <1>8 DEF Queries, Behind, Placed
  <2> QED BY <2>1, <2>2 DEF Behind
<1> QED BY <1>9, <1>10, <1>11 DEF Queries

LEMMA TakesQueries ==
  ASSUME Queries, TypeInv, NEW e \in Conns, NEW d \in Conns, Takes(e, d)
  PROVE  Queries'
<1> DEFINE id == Head(esql[d].queue).id
<1>1. /\ lastId' = lastId /\ Resolved' = Resolved /\ id \in Ids
      /\ hash' = [hash EXCEPT ![id] = NoData]
      /\ esql[d].queue # <<>> /\ esql[d].queue \in Seq(Call)
      /\ esql'[d].queue = Tail(esql[d].queue)
      /\ \A f \in Conns \ {d} : esql'[f].queue = esql[f].queue
  BY ObjectTyped DEF Takes, TypeInv, EsqlRec
<1>2. /\ esql'[e].current = "query" /\ esql'[e].curId = id /\ esql'[e].curData = hash[id]
      /\ \A f \in Conns \ {e} : /\ esql'[f].current = esql[f].current
                                /\ esql'[f].curId = esql[f].curId
                                /\ esql'[f].curData = esql[f].curData
                                /\ esql'[f].connected = esql[f].connected
  BY DEF Takes
<1> HIDE DEF id
<1>3. \A f \in Conns, i \in Ids : Runs(f, i)' <=> IF f = e THEN i = id ELSE Runs(f, i)
  BY <1>2 DEF Runs
<1>4. /\ id \in Waiters(d) /\ Waiters(d)' = Waiters(d) \ {id} /\ Ordered(esql'[d].queue)
      /\ \A i \in Waiters(d)' : id < i
      /\ \A f \in Conns \ {d} : Waiters(f)' = Waiters(f)
  <2>1. Ordered(esql[d].queue)
    BY DEF Queries, Placed
  <2> QED BY <1>1, <2>1, IdsOfTail DEF Waiters, id
<1>5. \A f \in Conns : Waiters(f) \subseteq Ids /\ Waiters(f)' \subseteq Waiters(f) /\ id \notin Waiters(f)'
  BY <1>4 DEF Waiters, IdsOf, Queries, Placed
<1>6. hash[id] = DataOf(id)
  BY <1>1, <1>4 DEF Queries, WithData
<1>7. Placed'
  <2>1. \A f, g \in Conns : \A i \in Waiters(f)' : ~Runs(g, i)'
    BY <1>3, <1>5 DEF Queries, Placed
  <2>2. \A f, g \in Conns : \A i \in Ids : Runs(f, i)' /\ Runs(g, i)' => f = g
    <3>1. \A f \in Conns : ~Runs(f, id)
      BY <1>4 DEF Queries, Placed
    <3> QED BY <1>3, <3>1 DEF Queries, Placed
  <2>3. \A f \in Conns : \A i \in Ids : Runs(f, i)' => i <= lastId'
    BY <1>1, <1>3, <1>4 DEF Queries, Placed
  <2>4. \A f \in Conns : \A i \in Waiters(f)' : i <= lastId' /\ i \notin Resolved'
    BY <1>1, <1>5 DEF Queries, Placed
  <2>5. \A i \in Resolved' : i <= lastId'
    BY <1>1 DEF Queries, Placed
  <2>6. \A f, g \in Conns : \A i \in Waiters(f)' \cap Waiters(g)' : f = g
    BY <1>5 DEF Queries, Placed
  <2>7. \A f \in Conns : Ordered(esql'[f].queue)
    BY <1>1, <1>4 DEF Queries, Placed
  <2> QED BY <2>1, <2>2, <2>3, <2>4, <2>5, <2>6, <2>7 DEF Placed
<1>8. WithData'
  <2>1. \A f \in Conns : \A i \in Ids : Runs(f, i)' => esql'[f].curData = DataOf(i)
    BY <1>2, <1>3, <1>6 DEF Queries, WithData
  <2>2. ASSUME NEW i \in Ids
        PROVE  hash'[i] = IF \E f \in Conns : i \in Waiters(f)' THEN DataOf(i) ELSE NoData
    <3>1. CASE i = id
      <4>1. hash'[i] = NoData
        BY <1>1, <3>1 DEF TypeInv, TypeOK
      <4> QED BY <1>5, <3>1, <4>1
    <3>2. CASE i # id
      <4>1. (\E f \in Conns : i \in Waiters(f)') <=> (\E f \in Conns : i \in Waiters(f))
        BY <1>4, <3>2
      <4>2. hash'[i] = hash[i]
        BY <1>1, <3>2 DEF TypeInv, TypeOK
      <4> QED BY <4>1, <4>2 DEF Queries, WithData
    <3> QED BY <3>1, <3>2
  <2> QED BY <2>1, <2>2 DEF WithData
<1>9. Behind'
  <2>1. \A f \in Conns : esql'[f].current = "none" /\ esql'[f].connected => Waiters(f)' = {}
    BY <1>2, <1>5 DEF Queries, Behind
  <2>2. ASSUME ~Pooled, NEW f \in Conns, NEW i \in Ids \ Resolved', Runs(f, i)', NEW later \in Waiters(f)'
        PROVE  i < later
    <3>1. f = e /\ f = d
      BY <2>2 DEF Conns
    <3>2. i = id
      BY <1>3, <2>2, <3>1
    <3> QED BY <1>4, <2>2, <3>1, <3>2
  <2> QED BY <2>1, <2>2 DEF Behind
<1> QED BY <1>7, <1>8, <1>9 DEF Queries

LEMMA QueriesStep == Queries /\ TypeInv /\ Effect => Queries'
  BY RestsQueries, StartsQueries, EntersQueries, TakesQueries, EndsQueries DEF Effect

----------------------------------------------------------------------------
(* The helpers move no query *)

LEMMA KeepsSame ==
  ASSUME NEW s, NEW r, r.queue = s.queue, r.current = s.current, r.curId = s.curId,
         r.curData = s.curData, r.connected => s.connected
  PROVE  Keeps(s, r)
  BY DEF Keeps, KeepsQueue, KeepsCall

LEMMA KeepsTwice ==
  ASSUME NEW s, NEW r, NEW t, Keeps(s, r), Keeps(r, t)
  PROVE  Keeps(s, t)
  BY DEF Keeps, KeepsQueue, KeepsCall

\* A client's state, a job, a timer and handlers are nothing to the queries.
LEMMA PartsKeep ==
  ASSUME NEW s \in EsqlRec, NEW m, NEW b, NEW n, NEW h, NEW state
  PROVE  /\ Keeps(s, [s EXCEPT !.m = m])
         /\ Keeps(s, [s EXCEPT !.job = b])
         /\ Keeps(s, [s EXCEPT !.timeout = b])
         /\ Keeps(s, [s EXCEPT !.rtimers = n])
         /\ Keeps(s, Active(s, h, state))
         /\ Keeps(s, Closed(s))
<1>1. Keeps(s, [s EXCEPT !.m = m]) /\ Keeps(s, [s EXCEPT !.job = b])
  BY DEF Keeps, KeepsQueue, KeepsCall, EsqlRec
<1>2. Keeps(s, [s EXCEPT !.timeout = b]) /\ Keeps(s, [s EXCEPT !.rtimers = n])
  BY DEF Keeps, KeepsQueue, KeepsCall, EsqlRec
<1>3. Keeps(s, Active(s, h, state))
  BY DEF Keeps, KeepsQueue, KeepsCall, EsqlRec, Active
<1>4. Keeps(s, Closed(s))
  BY DEF Keeps, KeepsQueue, KeepsCall, EsqlRec, Closed
<1> QED BY <1>1, <1>2, <1>3, <1>4

LEMMA ClientKeeps ==
  ASSUME NEW s \in EsqlRec, NEW m PROVE Keeps(s, [s EXCEPT !.m = m])
  BY DEF Keeps, KeepsQueue, KeepsCall, EsqlRec

LEMMA ActiveKeepsQueries ==
  ASSUME NEW s \in EsqlRec, NEW h, NEW state PROVE Keeps(s, Active(s, h, state))
  BY DEF Keeps, KeepsQueue, KeepsCall, EsqlRec, Active

LEMMA QueueSwitch ==
  ASSUME NEW q \in Seq(Call), NEW d \in DbNames
  PROVE  LET r == Append(q, [fn |-> "database_set", id |-> 0, db |-> d])
         IN  IdsOf(r) = IdsOf(q) /\ (Ordered(q) => Ordered(r))
<1> DEFINE c == [fn |-> "database_set", id |-> 0, db |-> d]
<1>1. c \in Call /\ c.id = 0
  BY CallTyped
<1> HIDE DEF c
<1>2. {id \in Ids : c.id = id} = {} /\ c.id \notin Ids
  BY <1>1, ConstantsTyped
<1>3. IdsOf(Append(q, c)) = IdsOf(q) /\ (Ordered(q) => Ordered(Append(q, c)))
  BY <1>1, <1>2, IdsOfAppend
<1> QED BY <1>3 DEF c

LEMMA SwitchKeepsQueries ==
  ASSUME NEW s \in EsqlRec, NEW d \in DbNames
  PROVE  LET r == DatabaseSwitched(s, d)
         IN  /\ Keeps(s, r)
             /\ Detached(s) /\ s.current # "none" => Detached(r)
<1> DEFINE r == DatabaseSwitched(s, d)
           c == [fn |-> "database_set", id |-> 0, db |-> d]
<1>1. CASE s.current = "none" /\ s.connected
  <2>1. r.queue = s.queue /\ r.current = "database_set"
    BY <1>1 DEF DatabaseSwitched, EsqlRec
  <2> QED BY <1>1, <2>1 DEF Keeps, KeepsQueue, KeepsCall
<1>2. CASE ~(s.current = "none" /\ s.connected)
  <2>1. s.queue \in Seq(Call)
    BY DEF EsqlRec
  <2>2. r = [s EXCEPT !.queue = Append(s.queue, c)]
    BY <1>2 DEF DatabaseSwitched, Enqueued
  <2>3. IdsOf(Append(s.queue, c)) = IdsOf(s.queue) /\ (Ordered(s.queue) => Ordered(Append(s.queue, c)))
    BY <2>1, QueueSwitch
  <2> HIDE DEF r, c
  <2>4. /\ r.queue = Append(s.queue, c) /\ r.current = s.current /\ r.curId = s.curId
        /\ r.curData = s.curData /\ r.connected = s.connected
        /\ r.fdh = s.fdh /\ r.stray = s.stray /\ r.m = s.m /\ r.job = s.job
    BY <2>2 DEF EsqlRec
  <2>5. Keeps(s, r) /\ (Detached(s) => Detached(r))
    BY <2>3, <2>4 DEF Keeps, KeepsQueue, KeepsCall, Detached
  <2> QED BY <2>5 DEF r
<1> QED BY <1>1, <1>2

\* A dial replaces the call under way.
LEMMA DialKeepsQueries ==
  ASSUME NEW s \in EsqlRec
  PROVE  /\ \A r \in Dialled(s) : Keeps(s, r) /\ r.current = "init"
         /\ \A r \in NotDialled(s) : Keeps(s, r)
<1>1. ASSUME NEW r \in Dialled(s) PROVE Keeps(s, r) /\ r.current = "init"
  <2>1. PICK m, state : r = [WithHandler([s EXCEPT !.m = m], state) EXCEPT !.current = "init"]
    BY DEF Dialled
  <2>2. /\ r.queue = s.queue /\ r.current = "init" /\ r.curId = s.curId
        /\ r.connected = s.connected
    BY <2>1 DEF WithHandler, EsqlRec
  <2> QED BY <2>2 DEF Keeps, KeepsQueue, KeepsCall
<1>2. ASSUME NEW r \in NotDialled(s) PROVE Keeps(s, r)
  BY PartsKeep DEF NotDialled
<1> QED BY <1>1, <1>2

\* A client that is in no exchange is in none after a dial that failed.
LEMMA FailsDetached ==
  ASSUME NEW m \in MYSAC, m.proto \in {"start", "auth", "failed"}, NEW n \in Failing(m)
  PROVE  n.proto \in {"start", "failed"}
<1>1. \A s \in Sockets : \A b \in Breaking(m, s) : b.proto = "failed"
  BY DEF Breaking, Broken, SetError, MYSAC
<1>2. SetError(m).proto = m.proto
  BY DEF SetError, MYSAC
<1>3. [SetError(m) EXCEPT !.proto = "start", !.sock = "none"].proto = "start"
  BY DEF SetError, MYSAC
<1>4. m.sock \in Sockets /\ "live" \in Sockets /\ "dead" \in Sockets
  BY DEF MYSAC, Sockets
<1> QED BY <1>1, <1>2, <1>3, <1>4 DEF Failing, Doomed, Talking, Exchange

LEMMA NotDialledDetached ==
  ASSUME NEW s \in EsqlRec, Detached(s), NEW r \in NotDialled(s)
  PROVE  Detached(r)
<1>1. s.m \in MYSAC
  BY DEF EsqlRec
<1>2. PICK m \in ConnectFailing(s.m) : r = [s EXCEPT !.m = m]
  BY DEF NotDialled
<1>3. m.proto \in {"start", "failed"}
  <2>1. m \in Failing(s.m)
    BY <1>2 DEF ConnectFailing, Detached
  <2> QED BY <1>1, <2>1, FailsDetached DEF Detached
<1>4. r.fdh = s.fdh /\ r.stray = s.stray /\ r.m = m
  BY <1>2 DEF EsqlRec
<1> QED BY <1>3, <1>4 DEF Detached

LEMMA ClosedDetached == ASSUME NEW s \in EsqlRec PROVE Detached(Closed(s))
  BY DEF Detached, Closed, EsqlRec, Fresh

----------------------------------------------------------------------------
(* Steps taken while control is with the program *)

LEMMA OutcomesKept ==
  ASSUME QueryInv, UNCHANGED <<answers, reported, dropped>>
  PROVE  Resolved' = Resolved /\ AnsweredOnce'
  BY DEF QueryInv, AnsweredOnce, Resolved

LEMMA KeepsRests ==
  ASSUME UNCHANGED <<lastId, hash>>, Resolved' = Resolved,
         \A e \in Conns : Keeps(esql[e], esql'[e])
  PROVE  Rests
<1>1. ASSUME NEW e \in Conns
      PROVE  LET s == esql[e]
                 r == esql'[e]
             IN /\ KeepsQueue(s, r)
                /\ r.current = "query" => s.current = "query" /\ r.curId = s.curId /\ r.curData = s.curData
                /\ s.current = "query" => r.current \in {"query", "init"} \/ s.curId \in Resolved
                /\ r.current = "none" /\ r.connected =>
                     \/ s.current = "none" /\ s.connected
                     \/ IdsOf(r.queue) = {}
  BY DEF Keeps, KeepsCall
<1> QED BY <1>1 DEF Rests

\* The chain of handlers is where it was: a query with an outcome that is still
\* under way stays what it was, and a new one has no outcome.
LEMMA ControlKept ==
  ASSUME Control, run.at \in ProgramPoints, run'.at = run.at, run'.e = run.e,
         run.e \in Conns, Resolved' = Resolved, callbacks' \cap Resolved \subseteq callbacks,
         \A e \in Conns :
           \/ /\ KeepsCall(esql[e], esql'[e])
              /\ Detached(esql[e]) /\ esql'[e].current = "query" => Detached(esql'[e])
           \/ esql[e].current = "none" /\ esql'[e].curId \notin Resolved
  PROVE  Control'
<1>1. run.at \notin {"next", "io", "complete"}
  BY DEF ProgramPoints
<1>2. run'.at = "ready" => esql'[run'.e].current = "init"
  BY DEF Control, KeepsCall
<1>3. run'.at \in {"result", "failed"} =>
        esql'[run'.e].current \in {"query", "init"} /\ esql'[run'.e].curId \in Resolved'
  BY DEF Control, KeepsCall
<1>4. \A id \in callbacks' \cap Resolved' :
        run'.at \in {"result", "failed"} /\ id = esql'[run'.e].curId
  BY DEF Control, KeepsCall
<1>5. ASSUME NEW e \in Conns, esql'[e].current = "query", esql'[e].curId \in Resolved'
      PROVE  Answering(e)' \/ Parked(e)'
  <2>1. /\ KeepsCall(esql[e], esql'[e])
        /\ Detached(esql[e]) => Detached(esql'[e])
    BY <1>5
  <2>2. esql[e].current = "query" /\ esql[e].curId \in Resolved
    BY <1>5, <2>1 DEF KeepsCall
  <2>3. CASE Answering(e)
    BY <2>3 DEF Answering
  <2>4. CASE Parked(e)
    BY <1>1, <2>1, <2>4 DEF Parked
  <2> QED BY <2>2, <2>3, <2>4 DEF Control
<1> QED BY <1>1, <1>2, <1>3, <1>4, <1>5 DEF Control

\* What every step but QueryStart and QueryQueue does then.
LEMMA ProgramRests ==
  ASSUME QueryInv, run.at \in ProgramPoints, run'.at = run.at, run'.e = run.e,
         UNCHANGED <<lastId, hash, answers, reported, dropped>>,
         callbacks' \cap Resolved \subseteq callbacks,
         \A e \in Conns :
           /\ Keeps(esql[e], esql'[e])
           /\ Detached(esql[e]) /\ esql'[e].current = "query" => Detached(esql'[e])
  PROVE  Effect /\ Control' /\ AnsweredOnce'
<1>1. Resolved' = Resolved /\ AnsweredOnce'
  BY OutcomesKept
<1>2. Rests
  BY <1>1, KeepsRests
<1>3. Control'
  BY <1>1, ControlKept DEF QueryInv, TypeInv, TypeOK, Keeps
<1> QED BY <1>1, <1>2, <1>3 DEF Effect

\* The client of one object changes without leaving what it is in.
LEMMA ClientRests ==
  ASSUME QueryInv, run.at \in ProgramPoints, run' = run, NEW t \in Conns, NEW m,
         UNCHANGED <<lastId, hash, answers, reported, dropped>>,
         callbacks' \cap Resolved \subseteq callbacks,
         esql' = [esql EXCEPT ![t].m = m],
         esql[t].current = "none" \/ m.proto = esql[t].m.proto
  PROVE  Effect /\ Control' /\ AnsweredOnce'
<1>1. esql \in [Conns -> EsqlRec] /\ esql[t] \in EsqlRec
  BY ObjectTyped DEF QueryInv, TypeInv, TypeOK
<1>2. esql'[t] = [esql[t] EXCEPT !.m = m] /\ \A e \in Conns \ {t} : esql'[e] = esql[e]
  BY <1>1
<1>3. Keeps(esql[t], esql'[t])
  BY <1>1, <1>2, PartsKeep
<1>4. Detached(esql[t]) /\ esql'[t].current = "query" => Detached(esql'[t])
  BY <1>1, <1>2 DEF Detached, EsqlRec
<1>5. \A e \in Conns : Keeps(esql[e], esql'[e])
  BY <1>2, <1>3, KeepsSame
<1>6. \A e \in Conns : Detached(esql[e]) /\ esql'[e].current = "query" => Detached(esql'[e])
  BY <1>2, <1>4
<1> QED BY <1>5, <1>6, ProgramRests

LEMMA QueriesConnect == QueryInv /\ Connect => Effect /\ Control' /\ AnsweredOnce'
<1> SUFFICES ASSUME QueryInv, Connect PROVE Effect /\ Control' /\ AnsweredOnce'
  OBVIOUS
<1> DEFINE ready(e) == [esql[e] EXCEPT !.m = Setup(@)]
           dialled(e) == IF esql[e].connected THEN {esql[e]}
                         ELSE Dialled(ready(e)) \cup NotDialled(ready(e))
<1>1. ASSUME NEW e \in Conns PROVE esql'[e] \in dialled(e)
  BY <1>1 DEF Connect
<1>2. ASSUME NEW e \in Conns
      PROVE  /\ Keeps(esql[e], esql'[e])
             /\ Detached(esql[e]) /\ esql'[e].current = "query" => Detached(esql'[e])
  <2>1. esql[e] \in EsqlRec /\ esql[e].m \in MYSAC
    BY ObjectTyped DEF QueryInv, TypeInv
  <2>2. ready(e) \in EsqlRec /\ Keeps(esql[e], ready(e)) /\ (Detached(esql[e]) => Detached(ready(e)))
    <3>1. Setup(esql[e].m) \in MYSAC
      BY <2>1, CommandsTyped
    <3>2. esql[e].m.proto \in {"start", "auth", "failed"} => Setup(esql[e].m).proto = esql[e].m.proto
      BY <2>1 DEF Setup, MYSAC
    <3>3. /\ ready(e).m = Setup(esql[e].m) /\ ready(e).job = esql[e].job
          /\ ready(e).fdh = esql[e].fdh /\ ready(e).stray = esql[e].stray
      BY <2>1 DEF EsqlRec
    <3>4. Detached(esql[e]) => Detached(ready(e))
      BY <3>2, <3>3 DEF Detached
    <3> QED BY <2>1, <3>1, <3>4, ClientTyped, PartsKeep
  <2> HIDE DEF ready
  <2>3. CASE esql[e].connected
    BY <1>1, <2>3, KeepsSame
  <2>4. CASE esql'[e] \in Dialled(ready(e))
    <3>1. Keeps(ready(e), esql'[e]) /\ esql'[e].current = "init"
      BY <2>2, <2>4, DialKeepsQueries
    <3> QED BY <2>2, <3>1, KeepsTwice
  <2>5. CASE esql'[e] \in NotDialled(ready(e))
    <3>1. Keeps(ready(e), esql'[e]) /\ (Detached(ready(e)) => Detached(esql'[e]))
      BY <2>2, <2>5, DialKeepsQueries, NotDialledDetached
    <3> QED BY <2>2, <3>1, KeepsTwice
  <2> QED BY <1>1, <2>3, <2>4, <2>5
<1> QED BY <1>2, ProgramRests DEF Connect, ProgramTurn, history, outcomes

LEMMA QueriesDisconnect == QueryInv /\ Disconnect => Effect /\ Control' /\ AnsweredOnce'
<1> SUFFICES ASSUME QueryInv, Disconnect PROVE Effect /\ Control' /\ AnsweredOnce'
  OBVIOUS
<1>1. ASSUME NEW e \in Conns
      PROVE  /\ Keeps(esql[e], esql'[e])
             /\ Detached(esql[e]) /\ esql'[e].current = "query" => Detached(esql'[e])
  <2>1. esql[e] \in EsqlRec
    BY ObjectTyped DEF QueryInv, TypeInv
  <2>2. esql'[e] \in {esql[e], Closed(esql[e])}
    BY DEF Disconnect
  <2> QED BY <2>1, <2>2, PartsKeep, KeepsSame, ClosedDetached
<1>2. run'.at = run.at /\ run'.e = run.e
  BY DEF Disconnect, QueryInv, TypeInv, TypeOK
<1> QED BY <1>1, <1>2, ProgramRests DEF Disconnect, ProgramTurn, outcomes

LEMMA QueriesDatabaseSet ==
  ASSUME QueryInv, NEW d \in DbNames, DatabaseSet(d)
  PROVE  Effect /\ Control' /\ AnsweredOnce'
<1>1. ASSUME NEW e \in Conns
      PROVE  /\ Keeps(esql[e], esql'[e])
             /\ Detached(esql[e]) /\ esql'[e].current = "query" => Detached(esql'[e])
  <2>1. esql[e] \in EsqlRec
    BY ObjectTyped DEF QueryInv, TypeInv
  <2>2. esql'[e] = DatabaseSwitched(esql[e], d)
    BY DEF DatabaseSet
  <2>3. Keeps(esql[e], esql'[e]) /\ (Detached(esql[e]) /\ esql[e].current # "none" => Detached(esql'[e]))
    BY <2>1, <2>2, SwitchKeepsQueries
  <2> QED BY <2>3 DEF Keeps, KeepsCall
<1> QED BY <1>1, ProgramRests DEF DatabaseSet, ProgramTurn, outcomes

LEMMA QueriesTimeoutSet ==
  ASSUME QueryInv, NEW on \in BOOLEAN, TimeoutSet(on)
  PROVE  Effect /\ Control' /\ AnsweredOnce'
<1>1. ASSUME NEW e \in Conns
      PROVE  /\ Keeps(esql[e], esql'[e])
             /\ Detached(esql[e]) /\ esql'[e].current = "query" => Detached(esql'[e])
  <2>1. esql[e] \in EsqlRec
    BY ObjectTyped DEF QueryInv, TypeInv
  <2>2. esql'[e] = [esql[e] EXCEPT !.timeout = on]
    BY DEF TimeoutSet
  <2>3. Keeps(esql[e], esql'[e])
    <3>1. Keeps(esql[e], [esql[e] EXCEPT !.timeout = on])
      BY <2>1, PartsKeep
    <3> QED BY <2>2, <3>1
  <2> QED BY <2>1, <2>2, <2>3 DEF Detached, EsqlRec
<1> QED BY <1>1, ProgramRests DEF TimeoutSet, ProgramTurn, history, outcomes

LEMMA QueriesSettings ==
  ASSUME QueryInv,
         \/ \E on \in BOOLEAN : ReconnectSet(on)
         \/ \E id \in Ids : QueryCallbackSet(id)
  PROVE  Effect /\ Control' /\ AnsweredOnce'
<1>1. \A e \in Conns : Keeps(esql[e], esql'[e]) /\ esql'[e] = esql[e]
  BY KeepsSame DEF ReconnectSet, QueryCallbackSet
<1> QED BY <1>1, ProgramRests DEF ReconnectSet, QueryCallbackSet, ProgramTurn, history, outcomes

LEMMA QueriesStart ==
  ASSUME QueryInv, NEW t \in Conns, QueryStart(t)
  PROVE  Effect /\ Control' /\ AnsweredOnce'
<1> DEFINE new == lastId + 1
<1>1. /\ new \in Ids /\ lastId' = new /\ hash' = hash /\ run' = run /\ callbacks' = callbacks
      /\ esql[t].current = "none" /\ esql[t].connected /\ run.at \in ProgramPoints
      /\ esql' = [esql EXCEPT ![t] = Started(esql[t], new)]
      /\ UNCHANGED <<answers, reported, dropped>>
  BY DEF QueryStart, Issue, Queryable, ProgramTurn, QueryInv, TypeInv, TypeOK, Ids
<1>2. Resolved' = Resolved /\ AnsweredOnce'
  BY <1>1, OutcomesKept
<1>3. esql[t] \in EsqlRec /\ esql'[t] = Started(esql[t], new) /\ \A e \in Conns \ {t} : esql'[e] = esql[e]
  BY <1>1, ObjectTyped DEF QueryInv, TypeInv, TypeOK
<1>4. /\ esql'[t].queue = esql[t].queue /\ esql'[t].current = "query"
      /\ esql'[t].curId = new /\ esql'[t].curData = DataOf(new)
  BY <1>3 DEF Started, EsqlRec
<1>5. Starts(t)
  BY <1>1, <1>2, <1>3, <1>4 DEF Starts
<1>6. Control'
  <2>1. new \notin Resolved
    BY <1>1 DEF QueryInv, TypeInv, TypeOK, Placed, Ids
  <2>2. \A e \in Conns : KeepsCall(esql[e], esql[e])
    BY DEF KeepsCall
  <2> QED BY <1>1, <1>2, <1>3, <1>4, <2>1, <2>2, ControlKept DEF QueryInv, TypeInv, TypeOK
<1> QED BY <1>2, <1>5, <1>6 DEF Effect

LEMMA QueriesQueue ==
  ASSUME QueryInv, NEW t \in Conns, QueryQueue(t)
  PROVE  Effect /\ Control' /\ AnsweredOnce'
<1> DEFINE new == lastId + 1
           call == [fn |-> "query", id |-> new, db |-> NoDb]
<1>1. /\ new \in Ids /\ lastId' = new /\ run' = run /\ callbacks' = callbacks
      /\ hash' = [hash EXCEPT ![new] = DataOf(new)]
      /\ esql[t].current # "none" /\ run.at \in ProgramPoints
      /\ esql' = [esql EXCEPT ![t] = Enqueued(esql[t], call)]
      /\ UNCHANGED <<answers, reported, dropped>>
  BY DEF QueryQueue, Issue, Queryable, ProgramTurn, QueryInv, TypeInv, TypeOK, Ids
<1>2. Resolved' = Resolved /\ AnsweredOnce'
  BY <1>1, OutcomesKept
<1>3. esql[t] \in EsqlRec /\ esql'[t] = Enqueued(esql[t], call) /\ \A e \in Conns \ {t} : esql'[e] = esql[e]
  BY <1>1, ObjectTyped DEF QueryInv, TypeInv, TypeOK
<1>4. /\ esql'[t].queue = Append(esql[t].queue, call) /\ esql'[t].current = esql[t].current
      /\ esql'[t].curId = esql[t].curId /\ esql'[t].curData = esql[t].curData
      /\ esql'[t].connected = esql[t].connected
      /\ Detached(esql[t]) => Detached(esql'[t])
  BY <1>3 DEF Enqueued, EsqlRec, Detached
<1>5. Enters(t)
  BY <1>1, <1>2, <1>3, <1>4 DEF Enters
<1>6. Control'
  <2>1. \A e \in Conns : KeepsCall(esql[e], esql'[e]) /\ (Detached(esql[e]) => Detached(esql'[e]))
    BY <1>3, <1>4 DEF KeepsCall
  <2> QED BY <1>1, <1>2, <2>1, ControlKept DEF QueryInv, TypeInv, TypeOK
<1> QED BY <1>2, <1>5, <1>6 DEF Effect

LEMMA QueriesRefused ==
  ASSUME QueryInv, NEW t \in Conns, QueryRefused(t)
  PROVE  Effect /\ Control' /\ AnsweredOnce'
<1>1. PICK m : esql' = [esql EXCEPT ![t].m = m]
  BY DEF QueryRefused
<1>2. run.at \in ProgramPoints /\ run' = run /\ esql[t].current = "none"
      /\ UNCHANGED <<lastId, hash, callbacks, answers, reported, dropped>>
  BY DEF QueryRefused, Queryable, ProgramTurn, history, outcomes
<1> QED BY <1>1, <1>2, ClientRests

LEMMA QueriesProgram == QueryInv /\ Program => Effect /\ Control' /\ AnsweredOnce'
  BY QueriesConnect, QueriesDisconnect, QueriesDatabaseSet, QueriesTimeoutSet, QueriesSettings,
     QueriesStart, QueriesQueue, QueriesRefused DEF Program

LEMMA QueriesResultEvent ==
  QueryInv /\ (ResultEvent \/ ResultUnref) => Effect /\ Control' /\ AnsweredOnce'
<1> SUFFICES ASSUME QueryInv, ResultEvent \/ ResultUnref PROVE Effect /\ Control' /\ AnsweredOnce'
  OBVIOUS
<1>1. 0 \in Conns /\ esql[0].m \in MYSAC
  BY ConstantsTyped, ObjectTyped DEF QueryInv, TypeInv
<1>2. ClearError(esql[0].m).proto = esql[0].m.proto
  BY <1>1 DEF ClearError, MYSAC
<1>3. PICK m \in {esql[0].m, ClearError(esql[0].m)} : esql' = [esql EXCEPT ![0].m = m]
  <2>1. esql = [esql EXCEPT ![0].m = esql[0].m]
    BY <1>1 DEF QueryInv, TypeInv, TypeOK, EsqlRec
  <2>2. FreesError \/ esql' = esql
    BY DEF ResultEvent, ResultUnref, ResultReturned
  <2> QED BY <2>1, <2>2 DEF FreesError
<1>4. run.at \in ProgramPoints /\ run' = run
      /\ UNCHANGED <<lastId, hash, callbacks, answers, reported, dropped>>
  BY DEF ResultEvent, ResultUnref, LoopTurn, ProgramTurn, ProgramPoints, history, outcomes
<1> QED BY <1>1, <1>2, <1>3, <1>4, ClientRests

\* Disconnecting an object leaves it detached.
LEMMA CloseKeeps ==
  ASSUME NEW e \in Conns, NEW s \in EsqlRec, QueryInv, CloseAndRetry(e, s), Keeps(esql[e], s)
  PROVE  /\ UNCHANGED <<lastId, hash, callbacks, answers, reported, dropped>>
         /\ Keeps(esql[e], esql'[e]) /\ Detached(esql'[e])
         /\ \A f \in Conns \ {e} : esql'[f] = esql[f]
<1> DEFINE n == IF reconnect = "on" THEN Closed(s).rtimers + 1 ELSE Closed(s).rtimers
           r == [Closed(s) EXCEPT !.rtimers = n]
<1>1. Closed(s) \in EsqlRec /\ Keeps(s, Closed(s)) /\ Detached(Closed(s))
  BY ClosedTyped, PartsKeep, ClosedDetached
<1>2. esql' = [esql EXCEPT ![e] = r]
  BY DEF CloseAndRetry
<1> HIDE DEF n
<1>3. Keeps(Closed(s), r)
  BY <1>1, PartsKeep
<1>4. Detached(r)
  BY <1>1 DEF Detached, EsqlRec
<1>5. Keeps(esql[e], r)
  BY <1>1, <1>3, KeepsTwice
<1> HIDE DEF r
<1>6. esql'[e] = r /\ \A f \in Conns \ {e} : esql'[f] = esql[f]
  BY <1>2 DEF QueryInv, TypeInv, TypeOK
<1> QED BY <1>4, <1>5, <1>6 DEF CloseAndRetry, outcomes

LEMMA QueriesTimeoutFires ==
  ASSUME QueryInv, NEW e \in Conns, TimeoutFires(e)
  PROVE  Effect /\ Control' /\ AnsweredOnce'
<1> DEFINE s == [esql[e] EXCEPT !.timeout = FALSE]
<1>1. esql[e] \in EsqlRec /\ s \in EsqlRec
  BY ObjectTyped DEF QueryInv, TypeInv, EsqlRec
<1>2. Keeps(esql[e], s)
  BY <1>1, PartsKeep
<1>3. CloseAndRetry(e, s) /\ run' = run /\ run.at \in ProgramPoints
  BY DEF TimeoutFires, LoopTurn, ProgramPoints
<1> HIDE DEF s
<1>4. /\ UNCHANGED <<lastId, hash, callbacks, answers, reported, dropped>>
      /\ Keeps(esql[e], esql'[e]) /\ Detached(esql'[e])
      /\ \A f \in Conns \ {e} : esql'[f] = esql[f]
  BY <1>1, <1>2, <1>3, CloseKeeps
<1>5. \A f \in Conns : Keeps(esql[f], esql'[f]) /\ (Detached(esql[f]) => Detached(esql'[f]))
  BY <1>4, KeepsSame
<1> QED BY <1>3, <1>4, <1>5, ProgramRests

LEMMA QueriesReconnectFires ==
  ASSUME QueryInv, NEW e \in Conns, ReconnectFires(e)
  PROVE  Effect /\ Control' /\ AnsweredOnce'
<1> DEFINE s == [esql[e] EXCEPT !.rtimers = @ - 1]
<1>1. esql[e] \in EsqlRec
  BY ObjectTyped DEF QueryInv, TypeInv
<1>2. s \in EsqlRec /\ Keeps(esql[e], s) /\ (Detached(esql[e]) => Detached(s))
  <2>1. esql[e].rtimers - 1 \in Nat
    BY <1>1 DEF ReconnectFires, EsqlRec
  <2>2. s \in EsqlRec
    BY <1>1, <2>1 DEF EsqlRec
  <2>3. Keeps(esql[e], s)
    BY <1>1, PartsKeep
  <2> QED BY <1>1, <2>2, <2>3 DEF Detached, EsqlRec
<1>3. PICK r, t :
        /\ esql' = [esql EXCEPT ![e] = t]
        /\ \/ r \in Dialled(s) /\ t = IF database = NoDb THEN r ELSE DatabaseSwitched(r, database)
           \/ r \in NotDialled(s) /\ t = r
        /\ UNCHANGED <<pool, database, reconnect, lastId, hash, callbacks, results, run, budget, outcomes, asked>>
  BY DEF ReconnectFires
<1> HIDE DEF s
<1>4. Keeps(esql[e], t) /\ (Detached(esql[e]) /\ t.current = "query" => Detached(t))
  <2>1. CASE r \in Dialled(s)
    <3>1. r \in EsqlRec /\ Keeps(esql[e], r) /\ r.current = "init"
      BY <1>2, <2>1, DialTyped, DialKeepsQueries, KeepsTwice
    <3>2. CASE t = r
      BY <3>1, <3>2
    <3>3. CASE database \in DbNames /\ t = DatabaseSwitched(r, database)
      <4>1. Keeps(r, t)
        BY <3>1, <3>3, SwitchKeepsQueries
      <4>2. t.current # "query"
        BY <3>1, <4>1 DEF Keeps, KeepsCall
      <4> QED BY <3>1, <4>1, <4>2, KeepsTwice
    <3>4. database \in DbNames \/ database = NoDb
      BY DEF QueryInv, TypeInv, TypeOK
    <3>5. \/ r \in NotDialled(s) /\ t = r
          \/ t = IF database = NoDb THEN r ELSE DatabaseSwitched(r, database)
      BY <1>3
    <3> QED BY <3>2, <3>3, <3>4, <3>5
  <2>2. CASE r \in NotDialled(s) /\ t = r
    <3>1. Keeps(s, t) /\ (Detached(s) => Detached(t))
      BY <1>2, <2>2, DialKeepsQueries, NotDialledDetached
    <3> QED BY <1>2, <3>1, KeepsTwice
  <2> QED BY <1>3, <2>1, <2>2
<1>5. esql'[e] = t /\ \A f \in Conns \ {e} : esql'[f] = esql[f]
  BY <1>3 DEF QueryInv, TypeInv, TypeOK
<1>6. \A f \in Conns : Keeps(esql[f], esql'[f])
                       /\ (Detached(esql[f]) /\ esql'[f].current = "query" => Detached(esql'[f]))
  BY <1>4, <1>5, KeepsSame
<1>7. run.at \in ProgramPoints /\ run' = run
      /\ UNCHANGED <<lastId, hash, callbacks, answers, reported, dropped>>
  BY <1>3 DEF ReconnectFires, LoopTurn, ProgramPoints, outcomes
<1> QED BY <1>6, <1>7, ProgramRests

----------------------------------------------------------------------------
(* Steps of the chain of handlers *)

\* The objects but run.e have nothing to do with where the chain goes.
LEMMA ChainControl ==
  ASSUME Control, NEW e \in Conns,
         run.e = e \/ run.at = "loop",
         run'.e = e \/ run'.at = "loop",
         run'.at = "ready" => esql'[e].current = "init",
         run'.at \in {"result", "failed"} =>
           esql'[e].current = "query" /\ esql'[e].curId \in Resolved',
         run'.at = "next" /\ esql'[e].current = "query" => esql'[e].curId \in Resolved',
         \A id \in callbacks' \cap Resolved' :
           run'.at \in {"result", "failed"} /\ id = esql'[e].curId,
         \A f \in Conns \ {e} :
           esql'[f].current = "query" /\ esql'[f].curId \in Resolved' =>
             /\ esql[f].current = "query" /\ esql[f].curId \in Resolved
             /\ Detached(esql[f]) => Detached(esql'[f]),
         esql'[e].current = "query" /\ esql'[e].curId \in Resolved' => Answering(e)' \/ Parked(e)'
  PROVE  Control'
<1>1. ASSUME NEW f \in Conns, f # e, esql'[f].current = "query", esql'[f].curId \in Resolved'
      PROVE  Parked(f)'
  <2>1. Answering(f) \/ Parked(f)
    BY <1>1 DEF Control
  <2>2. Parked(f)
    BY <1>1, <2>1 DEF Answering
  <2>3. Detached(esql'[f])
    BY <1>1, <2>2 DEF Parked
  <2> QED BY <1>1, <2>3 DEF Parked
<1> QED BY <1>1 DEF Control

\* A step that resolves nothing and changes the object it runs on alone.
LEMMA ChainRests ==
  ASSUME QueryInv, NEW e \in Conns,
         UNCHANGED <<lastId, hash, callbacks, answers, reported, dropped>>,
         run.e = e \/ run.at = "loop", run.at \notin {"result", "failed"},
         run'.e = e \/ run'.at = "loop", run'.at \notin {"result", "failed"},
         Keeps(esql[e], esql'[e]),
         \A f \in Conns \ {e} : esql'[f] = esql[f],
         run'.at = "ready" => esql'[e].current = "init",
         run'.at = "next" /\ esql'[e].current = "query" => esql'[e].curId \in Resolved,
         esql'[e].current = "query" /\ esql'[e].curId \in Resolved => Answering(e)' \/ Parked(e)'
  PROVE  Effect /\ Control' /\ AnsweredOnce'
<1>1. Resolved' = Resolved /\ AnsweredOnce'
  BY OutcomesKept
<1>2. \A f \in Conns : Keeps(esql[f], esql'[f])
  BY KeepsSame
<1>3. Rests
  BY <1>1, <1>2, KeepsRests
<1>4. callbacks' \cap Resolved' = {}
  BY <1>1 DEF QueryInv, Control
<1>5. Control'
  BY <1>1, <1>4, ChainControl DEF QueryInv
<1> QED BY <1>1, <1>3, <1>5 DEF Effect

\* What Control says of the object that runs.
LEMMA NotYetEnded ==
  ASSUME QueryInv, NEW e \in Conns, run.at \in {"loop", "io", "complete", "error"},
         run.e = e \/ run.at = "loop",
         esql[e].current = "query", esql[e].curId \in Resolved
  PROVE  Parked(e) /\ ~At("complete", e)
  BY DEF QueryInv, Control, Answering, Parked, At

LEMMA RunTyped ==
  ASSUME QueryInv, NEW point, Goto(point)
  PROVE  run'.at = point /\ run'.e = run.e /\ run'.hup = run.hup /\ run'.h = run.h
  BY DEF QueryInv, TypeInv, TypeOK, Goto

LEMMA QueriesFdReady ==
  ASSUME QueryInv, NEW e \in Conns, FdReady(e)
  PROVE  Effect /\ Control' /\ AnsweredOnce'
<1>1. PICK h \in {"fdh", "stray"}, hup \in BOOLEAN :
        /\ run.at = "loop" /\ HandlerOf(esql[e], h) # "none"
        /\ esql' = [esql EXCEPT ![e] = Active(esql[e], h, "off")]
        /\ run' = [at |-> "io", e |-> e, hup |-> hup, h |-> h]
        /\ UNCHANGED <<lastId, hash, callbacks, answers, reported, dropped>>
  BY DEF FdReady, LoopTurn, history, outcomes
<1>2. esql[e] \in EsqlRec /\ esql'[e] = Active(esql[e], h, "off") /\ \A f \in Conns \ {e} : esql'[f] = esql[f]
  BY <1>1, ObjectTyped DEF QueryInv, TypeInv, TypeOK
<1>3. Keeps(esql[e], esql'[e])
  BY <1>2, ActiveKeepsQueries
<1>4. ~Parked(e)
  BY <1>1 DEF Parked, Detached, HandlerOf
<1>5. ~(esql'[e].current = "query" /\ esql'[e].curId \in Resolved)
  BY <1>1, <1>3, <1>4, NotYetEnded DEF Keeps, KeepsCall
<1> QED BY <1>1, <1>2, <1>3, <1>5, ChainRests

LEMMA QueriesRunJob ==
  ASSUME QueryInv, NEW e \in Conns, RunJob(e)
  PROVE  Effect /\ Control' /\ AnsweredOnce'
<1> DEFINE s == [esql[e] EXCEPT !.job = FALSE]
<1>1. /\ run.at = "loop" /\ esql[e].job
      /\ esql' = [esql EXCEPT ![e] = Active(s, "fdh", "off")]
      /\ run'.at = "io" /\ run'.e = e
      /\ UNCHANGED <<lastId, hash, callbacks, answers, reported, dropped>>
  BY DEF RunJob, LoopTurn, history, outcomes
<1>2. esql[e] \in EsqlRec /\ s \in EsqlRec
  BY ObjectTyped DEF QueryInv, TypeInv, EsqlRec
<1>3. esql'[e] = Active(s, "fdh", "off") /\ \A f \in Conns \ {e} : esql'[f] = esql[f]
  BY <1>1 DEF QueryInv, TypeInv, TypeOK
<1>4. Keeps(esql[e], s)
  BY <1>2, PartsKeep
<1>5. s.m = esql[e].m /\ s.fdh = esql[e].fdh /\ s.stray = esql[e].stray /\ ~s.job
  BY <1>2 DEF EsqlRec
<1> HIDE DEF s
<1>6. Keeps(esql[e], esql'[e])
  BY <1>2, <1>3, <1>4, PartsKeep, KeepsTwice
<1>7. esql'[e].m = s.m /\ ~esql'[e].job /\ (s.fdh = "none" => esql'[e].fdh = "none") /\ esql'[e].stray = s.stray
  BY <1>2, <1>3, <1>5 DEF Active, EsqlRec
<1>8. Parked(e) => Parked(e)'
  BY <1>1, <1>5, <1>7 DEF Parked, Detached
<1>9. esql'[e].current = "query" /\ esql'[e].curId \in Resolved => Parked(e)
  BY <1>1, <1>6, NotYetEnded DEF Keeps, KeepsCall
<1> QED BY <1>1, <1>3, <1>6, <1>8, <1>9, ChainRests

LEMMA QueriesIoWait ==
  ASSUME QueryInv, NEW e \in Conns, IoWait(e)
  PROVE  Effect /\ Control' /\ AnsweredOnce'
<1>1. PICK m \in Waiting(esql[e].m) :
        /\ At("io", e) /\ run'.at = "loop"
        /\ esql' = [esql EXCEPT ![e] = Active([esql[e] EXCEPT !.m = m], run.h, "armed")]
        /\ UNCHANGED <<lastId, hash, callbacks, answers, reported, dropped>>
  BY DEF IoWait, Idle, history, outcomes
<1> DEFINE s == [esql[e] EXCEPT !.m = m]
<1>2. esql[e] \in EsqlRec /\ esql[e].m \in MYSAC /\ m \in MYSAC
  BY <1>1, ObjectTyped, IoTyped DEF QueryInv, TypeInv
<1>3. s \in EsqlRec /\ Keeps(esql[e], s)
  BY <1>2, ClientTyped, PartsKeep
<1>4. esql'[e] = Active(s, run.h, "armed") /\ \A f \in Conns \ {e} : esql'[f] = esql[f]
  BY <1>1 DEF QueryInv, TypeInv, TypeOK
<1>5. s.m = m /\ s.fdh = esql[e].fdh /\ s.stray = esql[e].stray /\ s.job = esql[e].job
  BY <1>2 DEF EsqlRec
<1> HIDE DEF s
<1>6. Keeps(esql[e], esql'[e])
  BY <1>3, <1>4, PartsKeep, KeepsTwice
<1>7. /\ esql'[e].m = m /\ esql'[e].job = s.job
      /\ s.fdh = "none" => esql'[e].fdh = "none"
      /\ s.stray = "none" => esql'[e].stray = "none"
  BY <1>3, <1>4, <1>5 DEF Active, EsqlRec
<1>8. Parked(e) => Parked(e)'
  <2> SUFFICES ASSUME Parked(e) PROVE Parked(e)'
    OBVIOUS
  <2>1. esql[e].m.proto \in {"start", "failed"} /\ ~esql[e].job
    BY <1>1 DEF Parked, Detached, At
  <2>2. m.proto = "auth"
    BY <1>1, <1>2, <2>1 DEF Waiting, Talking, Exchange, MYSAC
  <2> QED BY <1>1, <1>5, <1>7, <2>1, <2>2 DEF Parked, Detached
<1>9. esql'[e].current = "query" /\ esql'[e].curId \in Resolved => Parked(e)
  BY <1>1, <1>6, NotYetEnded DEF Keeps, KeepsCall, At
<1> QED BY <1>1, <1>4, <1>6, <1>8, <1>9, ChainRests DEF At

LEMMA QueriesIoDone ==
  ASSUME QueryInv, NEW e \in Conns, IoDone(e)
  PROVE  Effect /\ Control' /\ AnsweredOnce'
<1>1. PICK m \in Done(esql[e].m) :
        /\ At("io", e) /\ Goto("complete")
        /\ esql' = [esql EXCEPT ![e].m = m]
        /\ UNCHANGED <<lastId, hash, callbacks, answers, reported, dropped>>
  BY DEF IoDone, history, outcomes
<1>2. esql[e] \in EsqlRec /\ esql'[e] = [esql[e] EXCEPT !.m = m] /\ \A f \in Conns \ {e} : esql'[f] = esql[f]
  BY <1>1, ObjectTyped DEF QueryInv, TypeInv, TypeOK
<1>3. Keeps(esql[e], esql'[e])
  BY <1>2, ClientKeeps
<1>4. ~Parked(e)
  BY <1>1 DEF Parked, Detached, At, Done, Talking, Exchange
<1>5. ~(esql'[e].current = "query" /\ esql'[e].curId \in Resolved)
  BY <1>1, <1>3, <1>4, NotYetEnded DEF Keeps, KeepsCall, At
<1>6. run'.at = "complete" /\ run'.e = e
  BY <1>1, RunTyped DEF At
<1> QED BY <1>1, <1>2, <1>3, <1>5, <1>6, ChainRests DEF At

LEMMA QueriesIoFail ==
  ASSUME QueryInv, NEW e \in Conns, IoFail(e)
  PROVE  Effect /\ Control' /\ AnsweredOnce'
<1>1. PICK m \in Failing(esql[e].m) :
        /\ At("io", e) /\ Goto("error")
        /\ esql' = [esql EXCEPT ![e].m = m]
        /\ UNCHANGED <<lastId, hash, callbacks, answers, reported, dropped>>
  BY DEF IoFail, history, outcomes
<1>2. /\ esql[e] \in EsqlRec /\ esql[e].m \in MYSAC /\ esql'[e] = [esql[e] EXCEPT !.m = m]
      /\ \A f \in Conns \ {e} : esql'[f] = esql[f]
  BY <1>1, ObjectTyped DEF QueryInv, TypeInv, TypeOK
<1>3. Keeps(esql[e], esql'[e])
  BY <1>2, ClientKeeps
<1>4. run'.at = "error" /\ run'.e = e
  BY <1>1, RunTyped DEF At
<1>5. Parked(e) => Parked(e)'
  <2> SUFFICES ASSUME Parked(e) PROVE Parked(e)'
    OBVIOUS
  <2>1. m.proto \in {"start", "failed"}
    BY <1>1, <1>2, FailsDetached DEF Parked, Detached
  <2>2. esql'[e].m = m /\ esql'[e].fdh = esql[e].fdh /\ esql'[e].stray = esql[e].stray
    BY <1>2 DEF EsqlRec
  <2> QED BY <1>4, <2>1, <2>2 DEF Parked, Detached
<1>6. esql'[e].current = "query" /\ esql'[e].curId \in Resolved => Parked(e)
  BY <1>1, <1>3, NotYetEnded DEF Keeps, KeepsCall, At
<1> QED BY <1>1, <1>2, <1>3, <1>4, <1>5, <1>6, ChainRests DEF At

LEMMA QueriesCompleteInit ==
  ASSUME QueryInv, NEW e \in Conns, CompleteInit(e)
  PROVE  Effect /\ Control' /\ AnsweredOnce'
<1>1. /\ At("complete", e) /\ esql[e].current = "init"
      /\ esql' = [esql EXCEPT ![e].connected = TRUE]
      /\ \E point \in {"ready", "next"} : Goto(point)
      /\ UNCHANGED <<lastId, hash, callbacks, answers, reported, dropped>>
  BY DEF CompleteInit, outcomes
<1>2. /\ esql[e] \in EsqlRec /\ esql'[e] = [esql[e] EXCEPT !.connected = TRUE]
      /\ \A f \in Conns \ {e} : esql'[f] = esql[f]
  BY <1>1, ObjectTyped DEF QueryInv, TypeInv, TypeOK
<1>3. esql'[e].current = "init" /\ Keeps(esql[e], esql'[e])
  BY <1>1, <1>2 DEF Keeps, KeepsQueue, KeepsCall, EsqlRec
<1>4. run'.at \in {"ready", "next"} /\ run'.e = e
  BY <1>1, RunTyped DEF At
<1> QED BY <1>1, <1>2, <1>3, <1>4, ChainRests DEF At

\* Steps that only move along the chain.
LEMMA QueriesMoveOn ==
  ASSUME QueryInv, NEW e \in Conns,
         \/ CompleteOther(e)
         \/ ErrorOther(e)
         \/ ConnectCbReturns(e)
  PROVE  Effect /\ Control' /\ AnsweredOnce'
<1>1. UNCHANGED <<esql, lastId, hash, callbacks, answers, reported, dropped>>
  BY DEF CompleteOther, ErrorOther, ConnectCbReturns, history, outcomes
<1>2. Keeps(esql[e], esql'[e]) /\ \A f \in Conns \ {e} : esql'[f] = esql[f]
  BY <1>1, KeepsSame
<1>3. /\ run.e = e /\ run'.e = e
      /\ \/ run.at = "complete" /\ run'.at = "next" /\ esql[e].current # "query"
         \/ run.at = "error" /\ run'.at \in {"refused", "down"} /\ esql[e].current # "query"
         \/ run.at = "ready" /\ run'.at = "next"
         \/ run.at = "refused" /\ run'.at = "down"
  BY RunTyped DEF CompleteOther, ErrorOther, ConnectCbReturns, At
<1>4. run.at = "ready" => esql[e].current = "init"
  BY <1>3 DEF QueryInv, Control
<1>5. run'.at = "next" => esql'[e].current # "query"
  BY <1>1, <1>3, <1>4
<1>6. esql'[e].current = "query" => Answering(e)'
  BY <1>1, <1>3, <1>4 DEF Answering
<1> QED BY <1>1, <1>2, <1>3, <1>5, <1>6, ChainRests

LEMMA QueriesDown ==
  ASSUME QueryInv, NEW e \in Conns, Down(e)
  PROVE  Effect /\ Control' /\ AnsweredOnce'
<1>1. At("down", e) /\ CloseAndRetry(e, esql[e]) /\ run'.at = "loop"
  BY DEF Down, Idle
<1>2. esql[e] \in EsqlRec /\ Keeps(esql[e], esql[e])
  BY ObjectTyped, KeepsSame DEF QueryInv, TypeInv
<1>3. /\ UNCHANGED <<lastId, hash, callbacks, answers, reported, dropped>>
      /\ Keeps(esql[e], esql'[e]) /\ Detached(esql'[e])
      /\ \A f \in Conns \ {e} : esql'[f] = esql[f]
  BY <1>1, <1>2, CloseKeeps
<1>4. Parked(e)'
  BY <1>1, <1>3 DEF Parked
<1> QED BY <1>1, <1>3, <1>4, ChainRests DEF At

\* Once a query has its outcome, the object may forget it.
LEMMA NextForgets ==
  ASSUME QueryInv, NEW e \in Conns, At("next", e), esql[e].current = "query"
  PROVE  esql[e].curId \in Resolved
  BY DEF QueryInv, Control, At

LEMMA NextRests ==
  ASSUME QueryInv, NEW e \in Conns, At("next", e), run'.e = e \/ run'.at = "loop",
         run'.at \in {"loop", "io"},
         UNCHANGED <<lastId, hash, callbacks, answers, reported, dropped>>,
         KeepsQueue(esql[e], esql'[e]), esql'[e].current # "query",
         esql'[e].current = "none" /\ esql'[e].connected => IdsOf(esql'[e].queue) = {},
         \A f \in Conns \ {e} : esql'[f] = esql[f]
  PROVE  Effect /\ Control' /\ AnsweredOnce'
<1>1. Resolved' = Resolved /\ AnsweredOnce'
  BY OutcomesKept
<1>2. ASSUME NEW f \in Conns, f # e PROVE Keeps(esql[f], esql'[f])
  BY <1>2, KeepsSame
<1>3. Rests
  BY <1>1, <1>2, NextForgets DEF Rests, Keeps, KeepsCall
<1>4. callbacks' \cap Resolved' = {}
  BY <1>1 DEF QueryInv, Control, At
<1>5. Control'
  BY <1>1, <1>4, ChainControl DEF QueryInv, At
<1> QED BY <1>1, <1>3, <1>5 DEF Effect

\* A member that is left without a call has nothing in its queue.
LEMMA NothingRebalanced ==
  ASSUME TypeOK, NEW e \in Conns, Rebalanced(e)[e].queue = <<>>
  PROVE  esql[e].queue = <<>>
<1> DEFINE donors == {d \in Conns : OffersQuery(esql[d])}
<1>1. CASE ~(esql[e].queue = <<>> /\ Pooled /\ donors # {})
  BY <1>1 DEF Rebalanced
<1>2. CASE esql[e].queue = <<>>
  BY <1>2
<1> QED BY <1>1, <1>2

LEMMA QueriesNextIdle ==
  ASSUME QueryInv, NEW e \in Conns, NextIdle(e)
  PROVE  Effect /\ Control' /\ AnsweredOnce'
<1>1. /\ At("next", e) /\ run'.at = "loop" /\ esql[e].queue = <<>>
      /\ esql' = [esql EXCEPT ![e] = Finished(@)]
      /\ UNCHANGED <<lastId, hash, callbacks, answers, reported, dropped>>
  BY NothingRebalanced DEF NextIdle, Idle, QueryInv, TypeInv, history, outcomes
<1>2. /\ esql[e] \in EsqlRec /\ esql'[e] = Finished(esql[e])
      /\ \A f \in Conns \ {e} : esql'[f] = esql[f]
  BY <1>1, ObjectTyped DEF QueryInv, TypeInv, TypeOK
<1>3. esql'[e].current = "none" /\ esql'[e].queue = <<>>
  BY <1>1, <1>2 DEF Finished, EsqlRec
<1>4. KeepsQueue(esql[e], esql'[e]) /\ IdsOf(esql'[e].queue) = {}
  BY <1>1, <1>3, NoIds DEF KeepsQueue
<1> QED BY <1>1, <1>2, <1>3, <1>4, NextRests

LEMMA QueriesNextDatabase ==
  ASSUME QueryInv, NEW e \in Conns, NextDatabase(e)
  PROVE  Effect /\ Control' /\ AnsweredOnce'
<1> DEFINE q == esql[e].queue
           call == Head(q)
           c == [fn |-> "database_set", id |-> 0, db |-> call.db]
           switched == DatabaseSwitched(Finished(esql[e]), call.db)
<1>1. /\ At("next", e) /\ q # <<>> /\ call.fn = "database_set"
      /\ esql' = [esql EXCEPT ![e] = Active([switched EXCEPT !.queue = Tail(@)], "fdh", "off")]
      /\ run' = [run EXCEPT !.at = "io", !.h = "fdh"]
      /\ UNCHANGED <<lastId, hash, callbacks, answers, reported, dropped>>
  BY DEF NextDatabase, history, outcomes
<1>2. esql[e] \in EsqlRec /\ q \in Seq(Call)
  BY ObjectTyped DEF QueryInv, TypeInv, EsqlRec
<1>3. call \in Call /\ call.db \in DbNames /\ call.id = 0
  <2>1. call \in Call
    BY <1>1, <1>2
  <2> QED BY <1>1, <2>1 DEF Call
<1>4. Ordered(q)
  BY DEF QueryInv, Placed
<1>5. /\ IdsOf(Tail(q)) = IdsOf(q) /\ Ordered(Tail(q))
      /\ IdsOf(Tail(Append(q, c))) = IdsOf(q) /\ Ordered(Tail(Append(q, c)))
  <2>1. c \in Call
    BY <1>3, CallTyped
  <2>2. IdsOf(Append(q, c)) = IdsOf(q) /\ Ordered(Append(q, c))
    BY <1>2, <1>3, <1>4, QueueSwitch
  <2> HIDE DEF c, q
  <2>3. Append(q, c) \in Seq(Call) /\ Append(q, c) # <<>> /\ Head(Append(q, c)) = Head(q)
    BY <1>1, <1>2, <2>1, AppendNotEmpty
  <2>4. IdsOf(q) \ {0} = IdsOf(q)
    BY ConstantsTyped DEF IdsOf
  <2>5. IdsOf(Tail(q)) = IdsOf(q) \ {Head(q).id} /\ Ordered(Tail(q))
    BY <1>1, <1>2, <1>4, IdsOfTail
  <2>6. IdsOf(Tail(Append(q, c))) = IdsOf(Append(q, c)) \ {Head(q).id} /\ Ordered(Tail(Append(q, c)))
    BY <2>2, <2>3, IdsOfTail
  <2> QED BY <1>3, <2>2, <2>4, <2>5, <2>6
<1>6. Finished(esql[e]) \in EsqlRec /\ Finished(esql[e]).current = "none"
      /\ Finished(esql[e]).queue = q /\ Finished(esql[e]).connected = esql[e].connected
  BY <1>2 DEF Finished, EsqlRec, Currents
<1>7. /\ switched.queue \in {q, Append(q, c)} /\ switched \in EsqlRec
      /\ \/ switched.current = "database_set"
         \/ switched.current = "none" /\ ~switched.connected
  <2>1. switched \in EsqlRec
    BY <1>3, <1>6, DatabaseSwitchedTyped
  <2> HIDE DEF call, q
  <2> QED BY <1>6, <2>1 DEF DatabaseSwitched, Enqueued, EsqlRec
<1>8. /\ esql'[e] = Active([switched EXCEPT !.queue = Tail(@)], "fdh", "off")
      /\ \A f \in Conns \ {e} : esql'[f] = esql[f]
  BY <1>1 DEF QueryInv, TypeInv, TypeOK
<1> HIDE DEF switched, c, call
<1>9. esql'[e].queue = Tail(switched.queue) /\ esql'[e].current = switched.current
      /\ esql'[e].connected = switched.connected
  BY <1>7, <1>8 DEF Active, EsqlRec
<1>10. KeepsQueue(esql[e], esql'[e])
  BY <1>5, <1>7, <1>9 DEF KeepsQueue
<1>11. esql'[e].current # "query" /\ ~(esql'[e].current = "none" /\ esql'[e].connected)
  BY <1>7, <1>9
<1>12. run'.at = "io" /\ run'.e = e
  BY <1>1 DEF At, QueryInv, TypeInv, TypeOK
<1> QED BY <1>1, <1>8, <1>10, <1>11, <1>12, NextRests

\* The query a member finds at the head of its queue after rebalancing is the
\* head of some queue, its own or a donor's, which loses it when it is popped.
LEMMA RebalancedQueues ==
  ASSUME TypeOK, NEW e \in Conns, OffersQuery(Rebalanced(e)[e])
  PROVE  \E d \in Conns :
           /\ OffersQuery(esql[d])
           /\ Head(Rebalanced(e)[e].queue) = Head(esql[d].queue)
           /\ d = e => Rebalanced(e)[e].queue = esql[d].queue
           /\ d # e => /\ Tail(Rebalanced(e)[e].queue) = esql[e].queue
                       /\ Rebalanced(e)[d].queue = Tail(esql[d].queue)
           /\ \A f \in Conns \ {d, e} : Rebalanced(e)[f] = esql[f]
           /\ \A f \in Conns : Rebalanced(e)[f].curData = esql[f].curData
<1> DEFINE donors == {d \in Conns : OffersQuery(esql[d])}
           d == FirstOf(donors)
<1>1. CASE ~(esql[e].queue = <<>> /\ Pooled /\ donors # {})
  <2>1. Rebalanced(e) = esql
    BY <1>1 DEF Rebalanced
  <2> QED BY <2>1
<1>2. CASE esql[e].queue = <<>> /\ Pooled /\ donors # {}
  <2>1. d \in donors
    BY <1>2, FirstExists
  <2>2. d \in Conns /\ OffersQuery(esql[d]) /\ d # e
    BY <1>2, <2>1 DEF OffersQuery
  <2>3. Rebalanced(e) = [esql EXCEPT ![d].queue = Tail(@), ![e].queue = <<Head(esql[d].queue)>>]
    BY <1>2 DEF Rebalanced
  <2> HIDE DEF d
  <2> DEFINE rd == [esql[d] EXCEPT !.queue = Tail(esql[d].queue)]
             re == [esql[e] EXCEPT !.queue = <<Head(esql[d].queue)>>]
  <2>4. Rebalanced(e) = [esql EXCEPT ![d] = rd, ![e] = re]
    BY <2>2, <2>3 DEF TypeOK
  <2>5. esql[d] \in EsqlRec /\ esql[e] \in EsqlRec
    BY <2>2, ObjectTyped
  <2>6. rd.queue = Tail(esql[d].queue) /\ rd.curData = esql[d].curData
        /\ re.queue = <<Head(esql[d].queue)>> /\ re.curData = esql[e].curData
    BY <2>5 DEF EsqlRec
  <2> HIDE DEF rd, re
  <2>7. \A f \in Conns : Rebalanced(e)[f] = IF f = e THEN re ELSE IF f = d THEN rd ELSE esql[f]
    BY <2>2, <2>4 DEF TypeOK
  <2>8. Head(re.queue) = Head(esql[d].queue) /\ Tail(re.queue) = <<>>
    BY <2>6
  <2> QED BY <1>2, <2>2, <2>6, <2>7, <2>8
<1> QED BY <1>1, <1>2

LEMMA QueriesNextQuery ==
  ASSUME QueryInv, NEW e \in Conns, NextQuery(e)
  PROVE  Effect /\ Control' /\ AnsweredOnce'
<1> DEFINE all == Rebalanced(e)
           id == Head(all[e].queue).id
<1>1. /\ At("next", e) /\ OffersQuery(all[e])
      /\ hash' = [hash EXCEPT ![id] = NoData]
      /\ \E m : LET t == Taken([all[e] EXCEPT !.m = m], id)
               IN  \E r \in {t, Active(t, "fdh", "off")} : esql' = [all EXCEPT ![e] = r]
      /\ \E point \in {"error", "io"} : run' = [run EXCEPT !.at = point, !.h = "fdh"]
      /\ UNCHANGED <<lastId, callbacks, answers, reported, dropped>>
  BY DEF NextQuery, history, outcomes
<1>2. PICK d \in Conns :
           /\ OffersQuery(esql[d])
           /\ Head(all[e].queue) = Head(esql[d].queue)
           /\ d = e => all[e].queue = esql[d].queue
           /\ d # e => Tail(all[e].queue) = esql[e].queue /\ all[d].queue = Tail(esql[d].queue)
           /\ \A f \in Conns \ {d, e} : all[f] = esql[f]
           /\ \A f \in Conns : all[f].curData = esql[f].curData
  BY <1>1, RebalancedQueues DEF QueryInv, TypeInv
<1>3. /\ all \in [Conns -> EsqlRec]
      /\ \A f \in Conns : /\ all[f].connected = esql[f].connected
                          /\ all[f].current = esql[f].current
                          /\ all[f].curId = esql[f].curId
  BY RebalancedTyped DEF QueryInv, TypeInv
<1>4. id = Head(esql[d].queue).id
  BY <1>2
<1> HIDE DEF all, id
<1>5. id \in Ids /\ esql[d].queue # <<>> /\ esql[d].queue \in Seq(Call)
  <2>1. esql[d].queue \in Seq(Call) /\ esql[d].queue # <<>> /\ Head(esql[d].queue).fn = "query"
    BY <1>2, ObjectTyped DEF QueryInv, TypeInv, EsqlRec, OffersQuery
  <2>2. Head(esql[d].queue) \in Call
    BY <2>1
  <2> QED BY <1>4, <2>1, <2>2, CallTyped
<1>6. PICK m, r : /\ esql' = [all EXCEPT ![e] = r]
                  /\ LET t == Taken([all[e] EXCEPT !.m = m], id)
                     IN  r \in {t, Active(t, "fdh", "off")}
  BY <1>1
<1>7. /\ esql'[e].current = "query" /\ esql'[e].curId = id /\ esql'[e].curData = hash[id]
      /\ esql'[e].queue = Tail(all[e].queue)
      /\ \A f \in Conns \ {e} : esql'[f] = all[f]
  <2>1. all[e] \in EsqlRec /\ esql'[e] = r /\ \A f \in Conns \ {e} : esql'[f] = all[f]
    BY <1>3, <1>6
  <2> DEFINE t == Taken([all[e] EXCEPT !.m = m], id)
  <2>2. /\ t.current = "query" /\ t.curId = id /\ t.curData = hash[id] /\ t.queue = Tail(all[e].queue)
        /\ DOMAIN t = DOMAIN all[e] /\ {"current", "curId", "curData", "queue", "fdh"} \subseteq DOMAIN t
    BY <2>1 DEF Taken, EsqlRec
  <2>3. r = t \/ r = Active(t, "fdh", "off")
    BY <1>6
  <2> HIDE DEF t
  <2> QED BY <2>1, <2>2, <2>3 DEF Active
<1>8. Resolved' = Resolved /\ AnsweredOnce'
  BY <1>1, OutcomesKept
<1>9. id \in Waiters(d) /\ id \notin Resolved
  <2>1. id \in Waiters(d)
    BY <1>4, <1>5, IdsOfTail DEF Waiters, QueryInv, Placed
  <2> QED BY <2>1 DEF QueryInv, Placed
<1>10. Takes(e, d)
  <2>1. esql'[d].queue = Tail(esql[d].queue) /\ \A f \in Conns \ {d} : esql'[f].queue = esql[f].queue
    BY <1>2, <1>7
  <2>2. \A f \in Conns \ {e} : /\ esql'[f].current = esql[f].current
                               /\ esql'[f].curId = esql[f].curId
                               /\ esql'[f].curData = esql[f].curData
                               /\ esql'[f].connected = esql[f].connected
    BY <1>2, <1>3, <1>7
  <2>3. esql[e].current = "query" => esql[e].curId \in Resolved
    BY <1>1, NextForgets
  <2> QED BY <1>1, <1>4, <1>5, <1>7, <1>8, <2>1, <2>2, <2>3 DEF Takes
<1>11. Control'
  <2>1. run.e = e /\ run'.e = e /\ run'.at \in {"io", "error"} /\ run.at = "next"
    BY <1>1 DEF At, QueryInv, TypeInv, TypeOK
  <2>2. callbacks' \cap Resolved' = {}
    BY <1>1, <1>8, <2>1 DEF QueryInv, Control
  <2>3. ASSUME NEW f \in Conns \ {e}
        PROVE  /\ esql'[f].current = esql[f].current /\ esql'[f].curId = esql[f].curId
               /\ Detached(esql[f]) => Detached(esql'[f])
    <3>1. esql'[f].current = esql[f].current /\ esql'[f].curId = esql[f].curId
      BY <1>3, <1>7
    <3>2. /\ esql'[f].fdh = esql[f].fdh /\ esql'[f].stray = esql[f].stray
          /\ esql'[f].m = esql[f].m /\ esql'[f].job = esql[f].job
      BY <1>7, RebalancedParts DEF all, QueryInv, TypeInv
    <3> QED BY <3>1, <3>2 DEF Detached
  <2> QED BY <1>7, <1>8, <1>9, <2>1, <2>2, <2>3, ChainControl DEF QueryInv
<1> QED BY <1>8, <1>10, <1>11 DEF Effect

LEMMA NowResolved ==
  ASSUME TypeOK, NEW id \in Ids
  PROVE  /\ answers' = [answers EXCEPT ![id] = @ + 1] /\ UNCHANGED <<reported, dropped>> =>
              Resolved' = Resolved \cup {id}
         /\ UNCHANGED answers /\ reported' = reported \cup {id} /\ UNCHANGED dropped =>
              Resolved' = Resolved \cup {id}
         /\ UNCHANGED answers /\ dropped' = dropped \cup {id} /\ UNCHANGED reported =>
              Resolved' = Resolved \cup {id}
  BY DEF TypeOK, Resolved

\* A query without an outcome gets its first one.
LEMMA NowAnswered ==
  ASSUME TypeOK, AnsweredOnce, NEW id \in Ids, id \notin Resolved,
         \/ answers' = [answers EXCEPT ![id] = @ + 1] /\ UNCHANGED <<reported, dropped>>
         \/ UNCHANGED answers /\ reported' = reported \cup {id} /\ UNCHANGED dropped
         \/ UNCHANGED answers /\ dropped' = dropped \cup {id} /\ UNCHANGED reported
  PROVE  AnsweredOnce'
<1>1. answers[id] = 0 /\ id \notin reported /\ id \notin dropped
  BY DEF TypeOK, Resolved
<1>2. CASE answers' = [answers EXCEPT ![id] = @ + 1] /\ UNCHANGED <<reported, dropped>>
  <2>1. answers'[id] = 1 /\ \A i \in Ids \ {id} : answers'[i] = answers[i]
    BY <1>1, <1>2 DEF TypeOK
  <2> QED BY <1>1, <1>2, <2>1 DEF AnsweredOnce
<1>3. CASE UNCHANGED answers /\ reported' = reported \cup {id} /\ UNCHANGED dropped
  BY <1>1, <1>3 DEF AnsweredOnce
<1>4. CASE UNCHANGED answers /\ dropped' = dropped \cup {id} /\ UNCHANGED reported
  BY <1>1, <1>4 DEF AnsweredOnce
<1> QED BY <1>2, <1>3, <1>4

\* The step that gives the query under way its outcome.
LEMMA EndsStep ==
  ASSUME QueryInv, NEW e \in Conns, run.e = e, run'.e = e,
         run.at \notin {"result", "failed"}, run'.at \in {"result", "failed", "next", "down"},
         esql[e].current = "query", esql[e].curId \notin Resolved,
         Resolved' = Resolved \cup {esql[e].curId},
         UNCHANGED <<esql, lastId, hash, callbacks>>,
         esql[e].curId \in callbacks => run'.at \in {"result", "failed"}
  PROVE  Effect /\ Control'
<1>1. Ends(e)
  BY DEF Ends
<1>2. callbacks \cap Resolved = {}
  BY DEF QueryInv, Control
<1>3. ASSUME NEW f \in Conns \ {e}, esql'[f].current = "query", esql'[f].curId \in Resolved'
      PROVE  esql[f].current = "query" /\ esql[f].curId \in Resolved /\ esql'[f] = esql[f]
  <2>1. esql[f].current = "query" /\ esql[f].curId \in Ids /\ esql[e].curId \in Ids
    BY <1>3 DEF QueryInv, TypeInv, QueryHasId
  <2>2. esql[f].curId # esql[e].curId
    BY <2>1 DEF QueryInv, Placed, Runs
  <2> QED BY <1>3, <2>1, <2>2
<1>4. Answering(e)'
  BY DEF Answering
<1>5. \A id \in callbacks' \cap Resolved' :
        run'.at \in {"result", "failed"} /\ id = esql'[e].curId
  BY <1>2
<1>6. Control'
  BY <1>3, <1>4, <1>5, ChainControl DEF QueryInv
<1> QED BY <1>1, <1>6 DEF Effect

LEMMA QueriesCompleteQuery ==
  ASSUME QueryInv, NEW e \in Conns, CompleteQuery(e)
  PROVE  Effect /\ Control' /\ AnsweredOnce'
<1> DEFINE id == esql[e].curId
<1>1. /\ run.at = "complete" /\ run.e = e /\ esql[e].current = "query" /\ id \in Ids
      /\ answers' = [answers EXCEPT ![id] = @ + 1] /\ UNCHANGED <<reported, dropped>>
      /\ UNCHANGED <<esql, lastId, hash, callbacks>>
  BY DEF CompleteQuery, At, QueryInv, TypeInv, QueryHasId
<1>2. id \notin Resolved
  BY <1>1, NotYetEnded DEF At
<1>3. AnsweredOnce' /\ Resolved' = Resolved \cup {id}
  BY <1>1, <1>2, NowResolved, NowAnswered DEF QueryInv, TypeInv
<1>4. /\ run'.at \in {"result", "next"} /\ run'.e = e
      /\ id \in callbacks => run'.at = "result"
  BY <1>1, RunTyped DEF CompleteQuery
<1>5. Effect /\ Control'
  BY <1>1, <1>2, <1>3, <1>4, EndsStep
<1> QED BY <1>3, <1>5

LEMMA QueriesErrorQuery ==
  ASSUME QueryInv, NEW e \in Conns, ErrorQuery(e)
  PROVE  Effect /\ Control' /\ AnsweredOnce'
<1> DEFINE id == esql[e].curId
<1>1. /\ run.at = "error" /\ run.e = e /\ esql[e].current = "query" /\ id \in Ids
      /\ UNCHANGED <<esql, lastId, hash, callbacks>>
  BY DEF ErrorQuery, At, QueryInv, TypeInv, QueryHasId
<1>2. callbacks \cap Resolved = {}
  BY <1>1 DEF QueryInv, Control
<1>3. AfterFailure \in {"next", "down"}
  BY DEF AfterFailure
<1>4. /\ run'.at \in {"failed", "next", "down"} /\ run'.e = e
      /\ id \in callbacks => run'.at = "failed"
      /\ id \notin callbacks => run'.at \in {"next", "down"}
  BY <1>1, <1>3, RunTyped DEF ErrorQuery
<1>5. CASE id \in Resolved
  <2>1. id \notin callbacks
    BY <1>2, <1>5
  <2>2. UNCHANGED <<answers, reported, dropped>>
    BY <1>5, <2>1 DEF ErrorQuery
  <2>3. Keeps(esql[e], esql'[e]) /\ \A f \in Conns \ {e} : esql'[f] = esql[f]
    BY <1>1, KeepsSame
  <2>4. Answering(e)'
    BY <1>4 DEF Answering
  <2> QED BY <1>1, <1>4, <1>5, <2>1, <2>2, <2>3, <2>4, ChainRests
<1>6. CASE id \notin Resolved
  <2>1. \/ answers' = [answers EXCEPT ![id] = @ + 1] /\ UNCHANGED <<reported, dropped>>
        \/ UNCHANGED answers /\ reported' = reported \cup {id} /\ UNCHANGED dropped
        \/ UNCHANGED answers /\ dropped' = dropped \cup {id} /\ UNCHANGED reported
    BY <1>6 DEF ErrorQuery
  <2>2. AnsweredOnce' /\ Resolved' = Resolved \cup {id}
    BY <1>1, <1>6, <2>1, NowResolved, NowAnswered DEF QueryInv, TypeInv
  <2>3. Effect /\ Control'
    BY <1>1, <1>4, <1>6, <2>2, EndsStep
  <2> QED BY <2>2, <2>3
<1> QED BY <1>5, <1>6

LEMMA QueriesQueryCbReturns ==
  ASSUME QueryInv, NEW e \in Conns, QueryCbReturns(e)
  PROVE  Effect /\ Control' /\ AnsweredOnce'
<1>1. /\ run.at \in {"result", "failed"} /\ run.e = e
      /\ callbacks' = callbacks \ {esql[e].curId}
      /\ FreesError \/ esql' = esql
      /\ UNCHANGED <<lastId, hash, answers, reported, dropped>>
  BY DEF QueryCbReturns, ResultReturned, At, history, outcomes
<1>2. run'.at \in {"next", "down"} /\ run'.e = e
  BY <1>1, RunTyped DEF QueryCbReturns, AfterFailure
<1>3. Resolved' = Resolved /\ AnsweredOnce'
  BY <1>1, OutcomesKept
<1>4. ASSUME NEW f \in Conns
      PROVE  Keeps(esql[f], esql'[f]) /\ (Detached(esql[f]) => Detached(esql'[f]))
  <2>1. esql[f] \in EsqlRec /\ esql[f].m \in MYSAC
    BY ObjectTyped DEF QueryInv, TypeInv
  <2>2. esql'[f] = esql[f] \/ esql'[f] = [esql[f] EXCEPT !.m = ClearError(esql[f].m)]
    BY <1>1, ConstantsTyped DEF QueryInv, TypeInv, TypeOK, FreesError
  <2>3. CASE esql'[f] = esql[f]
    BY <2>3, KeepsSame
  <2>4. CASE esql'[f] = [esql[f] EXCEPT !.m = ClearError(esql[f].m)]
    <3>1. Keeps(esql[f], esql'[f])
      BY <2>1, <2>4, ClientKeeps
    <3>2. ClearError(esql[f].m).proto = esql[f].m.proto
      BY <2>1 DEF ClearError, MYSAC
    <3> QED BY <2>1, <2>4, <3>1, <3>2 DEF Detached, EsqlRec
  <2> QED BY <2>2, <2>3, <2>4
<1>5. Rests
  BY <1>1, <1>3, <1>4, KeepsRests
<1>6. Control'
  <2>1. esql[e].current \in {"query", "init"} /\ esql[e].curId \in Resolved
        /\ \A id \in callbacks \cap Resolved : id = esql[e].curId
    BY <1>1 DEF QueryInv, Control
  <2>2. esql'[e].curId = esql[e].curId
    BY <1>4, <2>1 DEF Keeps, KeepsCall
  <2>3. callbacks' \cap Resolved' = {}
    BY <1>1, <1>3, <2>1
  <2>4. ASSUME NEW f \in Conns \ {e}, esql'[f].current = "query", esql'[f].curId \in Resolved'
        PROVE  /\ esql[f].current = "query" /\ esql[f].curId \in Resolved
               /\ Detached(esql[f]) => Detached(esql'[f])
    BY <1>3, <1>4, <2>4 DEF Keeps, KeepsCall
  <2>5. Answering(e)'
    BY <1>2 DEF Answering
  <2> QED BY <1>1, <1>2, <1>3, <2>1, <2>2, <2>3, <2>4, <2>5, ChainControl DEF QueryInv
<1> QED BY <1>3, <1>5, <1>6 DEF Effect

----------------------------------------------------------------------------
(* The invariant *)

LEMMA QueryInit == Init => QueryInv
<1> SUFFICES ASSUME Init PROVE QueryInv
  OBVIOUS
<1>1. \A e \in Conns : esql[e].queue = <<>> /\ esql[e].current = "none" /\ ~esql[e].connected
  BY DEF Init, NewEsql
<1>2. Resolved = {} /\ lastId = 0 /\ callbacks = {} /\ run.at = "loop"
      /\ hash = [id \in Ids |-> NoData] /\ answers = [id \in Ids |-> 0]
      /\ reported = {} /\ dropped = {}
  BY DEF Init, Resolved, Idle
<1>3. \A e \in Conns : Waiters(e) = {} /\ Ordered(esql[e].queue)
  BY <1>1, NoIds DEF Waiters
<1>4. Placed
  BY <1>1, <1>2, <1>3 DEF Placed, Runs
<1>5. WithData
  BY <1>1, <1>2, <1>3 DEF WithData, Runs
<1>6. Behind
  BY <1>1, <1>3 DEF Behind, Runs
<1>7. Control
  BY <1>1, <1>2 DEF Control
<1>8. AnsweredOnce
  BY <1>2 DEF AnsweredOnce
<1> QED BY <1>4, <1>5, <1>6, <1>7, <1>8, TypeInit DEF QueryInv

LEMMA EffectStep == QueryInv /\ [Next]_vars => Effect /\ Control' /\ AnsweredOnce'
<1> SUFFICES ASSUME QueryInv, [Next]_vars PROVE Effect /\ Control' /\ AnsweredOnce'
  OBVIOUS
<1>1. CASE Program
  BY <1>1, QueriesProgram
<1>2. CASE ResultEvent \/ ResultUnref
  BY <1>2, QueriesResultEvent
<1>3. ASSUME NEW e \in Conns, Sources(e) PROVE Effect /\ Control' /\ AnsweredOnce'
  BY <1>3, QueriesFdReady, QueriesRunJob, QueriesTimeoutFires, QueriesReconnectFires DEF Sources
<1>4. ASSUME NEW e \in Conns, Io(e) \/ Complete(e) PROVE Effect /\ Control' /\ AnsweredOnce'
  BY <1>4, QueriesIoWait, QueriesIoDone, QueriesIoFail, QueriesCompleteInit, QueriesCompleteQuery,
     QueriesMoveOn DEF Io, Complete
<1>5. ASSUME NEW e \in Conns, NextCall(e) PROVE Effect /\ Control' /\ AnsweredOnce'
  BY <1>5, QueriesNextIdle, QueriesNextDatabase, QueriesNextQuery DEF NextCall
<1>6. ASSUME NEW e \in Conns, Error(e) \/ CbReturns(e) PROVE Effect /\ Control' /\ AnsweredOnce'
  BY <1>6, QueriesErrorQuery, QueriesMoveOn, QueriesDown, QueriesQueryCbReturns DEF Error, CbReturns
<1>7. CASE UNCHANGED vars
  <2>1. Resolved' = Resolved /\ AnsweredOnce'
    BY <1>7, OutcomesKept DEF vars, history, outcomes
  <2>2. Rests
    BY <1>7, <2>1, KeepsSame, KeepsRests DEF vars
  <2>3. Control'
    BY <1>7, <2>1 DEF vars, QueryInv, Control, Answering, Parked
  <2> QED BY <2>1, <2>2, <2>3 DEF Effect
<1> QED BY <1>1, <1>2, <1>3, <1>4, <1>5, <1>6, <1>7 DEF Next, Chain

LEMMA QueryStep == QueryInv /\ [Next]_vars => QueryInv'
<1> SUFFICES ASSUME QueryInv, [Next]_vars PROVE QueryInv'
  OBVIOUS
<1>1. Effect /\ Control' /\ AnsweredOnce'
  BY EffectStep
<1>2. Queries'
  BY <1>1, QueriesStep DEF QueryInv, Queries
<1>3. TypeInv'
  BY TypeStep DEF QueryInv
<1> QED BY <1>1, <1>2, <1>3 DEF QueryInv, Queries

LEMMA QueryInvariant == Spec => []QueryInv
  BY QueryInit, QueryStep, PTL DEF Spec

----------------------------------------------------------------------------
(* Counting the places of a query *)

\* A query waits: it is queued, or under way without an outcome.
Waits(id) == \E e \in Conns : id \in Waiters(e) \/ (Runs(e, id) /\ id \notin Resolved)

LEMMA AtMostOne ==
  ASSUME NEW S, \A x, y \in S : x = y
  PROVE  Cardinality(S) = IF S = {} THEN 0 ELSE 1
<1>1. CASE S = {}
  BY <1>1, FS_EmptySet
<1>2. CASE S # {}
  <2>1. PICK x : S = {x}
    BY <1>2
  <2> QED BY <1>2, <2>1, FS_Singleton
<1> QED BY <1>1, <1>2

LEMMA QueuedOnce ==
  ASSUME QueryInv, NEW id \in Ids
  PROVE  /\ \A x, y \in Queued(id) : x = y
         /\ Queued(id) # {} <=> \E e \in Conns : id \in Waiters(e)
<1>1. \A x \in Queued(id) : \E e \in Conns : \E i \in DOMAIN esql[e].queue :
        esql[e].queue[i].id = id /\ x = <<e, i>>
  BY DEF Queued
<1>2. \A e \in Conns : \A i \in DOMAIN esql[e].queue :
        esql[e].queue[i].id = id => <<e, i>> \in Queued(id) /\ id \in Waiters(e)
  BY DEF Queued, Waiters, IdsOf
<1>3. ASSUME NEW x \in Queued(id), NEW y \in Queued(id) PROVE x = y
  <2>1. PICK e, i : /\ e \in Conns /\ i \in DOMAIN esql[e].queue
                     /\ esql[e].queue[i].id = id /\ x = <<e, i>>
    BY <1>1
  <2>2. PICK f, j : /\ f \in Conns /\ j \in DOMAIN esql[f].queue
                     /\ esql[f].queue[j].id = id /\ y = <<f, j>>
    BY <1>1
  <2>3. e = f
    BY <1>2, <2>1, <2>2 DEF QueryInv, Placed
  <2>4. DOMAIN esql[e].queue \subseteq Nat
    <3>1. esql[e].queue \in Seq(Call)
      BY <2>1, ObjectTyped DEF QueryInv, TypeInv, EsqlRec
    <3> QED BY <3>1
  <2>5. ~(i < j) /\ ~(j < i)
    <3>1. Ordered(esql[e].queue)
      BY <2>1 DEF QueryInv, Placed
    <3> QED BY <2>1, <2>2, <2>3, <3>1, ConstantsTyped DEF Ordered
  <2> QED BY <2>1, <2>2, <2>3, <2>4, <2>5
<1>4. Queued(id) # {} <=> \E e \in Conns : id \in Waiters(e)
  <2>1. \A e \in Conns : id \in Waiters(e) => \E i \in DOMAIN esql[e].queue : esql[e].queue[i].id = id
    BY DEF Waiters, IdsOf
  <2> QED BY <1>1, <1>2, <2>1
<1> QED BY <1>3, <1>4

LEMMA PlacesAre ==
  ASSUME QueryInv, NEW id \in Ids
  PROVE  Places(id) = IF Waits(id) THEN 1 ELSE 0
<1>1. /\ \A x, y \in Queued(id) : x = y
      /\ Queued(id) # {} <=> \E e \in Conns : id \in Waiters(e)
  BY QueuedOnce
<1>2. /\ InFlight(id) # {} <=> \E e \in Conns : Runs(e, id) /\ id \notin Resolved
      /\ \A x, y \in InFlight(id) : x = y
  BY DEF InFlight, Runs, QueryInv, Placed
<1>3. Queued(id) # {} => InFlight(id) = {}
  BY <1>1, <1>2 DEF QueryInv, Placed
<1>4. /\ Cardinality(Queued(id)) = IF Queued(id) = {} THEN 0 ELSE 1
      /\ Cardinality(InFlight(id)) = IF InFlight(id) = {} THEN 0 ELSE 1
  BY <1>1, <1>2, AtMostOne
<1> QED BY <1>1, <1>2, <1>3, <1>4 DEF Places, Waits

LEMMA PlacesNext == QueryInv' => \A id \in Ids : Places(id)' = IF Waits(id)' THEN 1 ELSE 0
<1> DEFINE P == \A id \in Ids : Places(id) = IF Waits(id) THEN 1 ELSE 0
<1>1. QueryInv => P
  BY PlacesAre
<1>2. QueryInv' => P'
  BY <1>1, PTL
<1> QED BY <1>2

----------------------------------------------------------------------------
(* The theorems *)

\* A query is in one place of one member and leaves the queues for good with
\* its outcome (esql_pool_rebalance, esql_next, esql_query).
THEOREM OnePlaceCorrect == Spec => []OnePlace
<1>1. QueryInv => OnePlace
  <2> SUFFICES ASSUME QueryInv, NEW id \in Ids
               PROVE  /\ Places(id) <= 1
                      /\ id > lastId \/ id \in Resolved => Queued(id) = {}
    BY DEF OnePlace
  <2>1. Places(id) <= 1
    BY PlacesAre
  <2>2. id > lastId \/ id \in Resolved => \A e \in Conns : id \notin Waiters(e)
    BY ConstantsTyped DEF QueryInv, Placed, TypeInv, TypeOK
  <2> QED BY <2>1, <2>2, QueuedOnce
<1> QED BY <1>1, QueryInvariant, PTL

\* The program hears of a query at most once (esql_call_complete, esql_event_error).
THEOREM AnsweredOnceCorrect == Spec => []AnsweredOnce
<1>1. QueryInv => AnsweredOnce
  BY DEF QueryInv
<1> QED BY <1>1, QueryInvariant, PTL

\* The data pointer of a query stays with it (esql_query_data, cur_data).
THEOREM DataKeptCorrect == Spec => []DataKept
<1>1. QueryInv => DataKept
  <2> SUFFICES ASSUME QueryInv, NEW id \in Ids
               PROVE  /\ hash[id] = IF Queued(id) # {} THEN DataOf(id) ELSE NoData
                      /\ \A e \in InFlight(id) : esql[e].curData = DataOf(id)
    BY DEF DataKept
  <2>1. hash[id] = IF Queued(id) # {} THEN DataOf(id) ELSE NoData
    BY QueuedOnce DEF QueryInv, WithData
  <2> QED BY <2>1 DEF InFlight, Runs, QueryInv, WithData
<1> QED BY <1>1, QueryInvariant, PTL

\* What a step makes of a query that waits.
LEMMA StillWaits ==
  ASSUME QueryInv, Effect, NEW id \in Ids, Waits(id), id \notin Resolved
  PROVE  \/ Waits(id)'
         \/ id \in Resolved'
         \/ \E e \in InFlight(id) : esql'[e].current = "init"
<1>1. CASE Rests
  <2>1. CASE \E e \in Conns : id \in Waiters(e)
    BY <1>1, <2>1 DEF Rests, KeepsQueue, Waits, Waiters
  <2>2. ASSUME NEW e \in Conns, Runs(e, id) PROVE Runs(e, id)' \/ esql'[e].current = "init"
    BY <1>1, <2>2 DEF Rests, Runs
  <2>3. CASE \E e \in Conns : Runs(e, id)
    BY <1>1, <2>2, <2>3 DEF Waits, InFlight, Runs
  <2> QED BY <2>1, <2>3 DEF Waits
<1>2. ASSUME NEW t \in Conns, Starts(t) PROVE Waits(id)' \/ id \in Resolved'
  <2>1. \A e \in Conns : Waiters(e)' = Waiters(e)
    BY <1>2 DEF Starts, Waiters
  <2>2. \A e \in Conns : Runs(e, id) => Runs(e, id)'
    BY <1>2 DEF Starts, Runs
  <2> QED BY <2>1, <2>2 DEF Waits
<1>3. ASSUME NEW t \in Conns, Enters(t) PROVE Waits(id)' \/ id \in Resolved'
  <2>1. \A e \in Conns : Runs(e, id)' = Runs(e, id)
    BY <1>3 DEF Enters, Runs
  <2>2. \A e \in Conns : Waiters(e) \subseteq Waiters(e)'
    <3>1. esql[t].queue \in Seq(Call) /\ [fn |-> "query", id |-> lastId + 1, db |-> NoDb] \in Call
      BY <1>3, ObjectTyped, CallTyped DEF Enters, QueryInv, TypeInv, EsqlRec
    <3>2. Waiters(t) \subseteq Waiters(t)'
      BY <1>3, <3>1, IdsOfAppend DEF Enters, Waiters
    <3>3. \A e \in Conns \ {t} : Waiters(e)' = Waiters(e)
      BY <1>3 DEF Enters, Waiters
    <3> QED BY <3>2, <3>3
  <2> QED BY <2>1, <2>2 DEF Waits
<1>4. ASSUME NEW e \in Conns, NEW d \in Conns, Takes(e, d) PROVE Waits(id)' \/ id \in Resolved'
  <2>1. esql[d].queue \in Seq(Call) /\ esql[d].queue # <<>> /\ Ordered(esql[d].queue)
    BY <1>4, ObjectTyped DEF Takes, QueryInv, Placed, TypeInv, EsqlRec
  <2>2. /\ Waiters(d)' = Waiters(d) \ {Head(esql[d].queue).id}
        /\ \A f \in Conns \ {d} : Waiters(f)' = Waiters(f)
    BY <1>4, <2>1, IdsOfTail DEF Takes, Waiters
  <2>3. CASE id = Head(esql[d].queue).id
    BY <1>4, <2>3 DEF Takes, Runs, Waits
  <2>4. CASE id # Head(esql[d].queue).id /\ \E f \in Conns : id \in Waiters(f)
    BY <2>2, <2>4 DEF Waits
  <2>5. ASSUME NEW f \in Conns, Runs(f, id) PROVE f # e /\ Runs(f, id)'
    BY <1>4, <2>5 DEF Takes, Runs
  <2> QED BY <1>4, <2>3, <2>4, <2>5 DEF Waits, Takes
<1>5. ASSUME NEW e \in Conns, Ends(e) PROVE Waits(id)' \/ id \in Resolved'
  BY <1>5 DEF Ends, Waits, Waiters, Runs
<1> QED BY <1>1, <1>2, <1>3, <1>4, <1>5 DEF Effect

\* No step loses a query but a dial over its connection (esql_connect,
\* esql_reconnect_handler).
THEOREM LostOnlyByDiallingCorrect == Spec => LostOnlyByDialling
<1> DEFINE Kept == \A id \in 1 .. lastId :
             id \notin Resolved /\ Places(id) = 1 =>
               \/ id \in Resolved' \/ Places(id)' = 1
               \/ \E e \in InFlight(id) : esql'[e].current = "init"
<1>1. QueryInv /\ QueryInv' /\ [Next]_vars => Kept
  <2> SUFFICES ASSUME QueryInv, QueryInv', [Next]_vars, NEW id \in 1 .. lastId,
                      id \notin Resolved, Places(id) = 1
               PROVE  \/ id \in Resolved' \/ Places(id)' = 1
                      \/ \E e \in InFlight(id) : esql'[e].current = "init"
    OBVIOUS
  <2>1. id \in Ids
    BY DEF QueryInv, TypeInv, TypeOK, Ids
  <2>2. Waits(id)
    BY <2>1, PlacesAre
  <2>3. Places(id)' = IF Waits(id)' THEN 1 ELSE 0
    BY <2>1, PlacesNext
  <2> QED BY <2>1, <2>2, <2>3, EffectStep, StillWaits
<1> QED BY <1>1, QueryInvariant, PTL DEF Spec, LostOnlyByDialling

----------------------------------------------------------------------------
(* A plain object serves its queries in order: the refinement *)

\* Where a query is for the program that made it.
Standing(id) == IF id > lastId THEN "none" ELSE IF id \in Resolved THEN "ended"
                ELSE IF Waits(id) THEN "waiting" ELSE "lost"

LEMMA OutcomeIs == QueryInv => Outcome = [id \in Ids |-> Standing(id)]
<1> SUFFICES ASSUME QueryInv PROVE Outcome = [id \in Ids |-> Standing(id)]
  OBVIOUS
<1>1. \A id \in Ids : Places(id) = IF Waits(id) THEN 1 ELSE 0
  BY PlacesAre
<1> QED BY <1>1 DEF Outcome, Standing

LEMMA OutcomeNext == QueryInv' => Outcome' = [id \in Ids |-> Standing(id)']
<1>1. QueryInv' => (Outcome = [id \in Ids |-> Standing(id)])'
  BY OutcomeIs, PTL
<1> QED BY <1>1

\* The steps of QueryService, in terms of where each query stands.
LEMMA Stutters ==
  ASSUME QueryInv, QueryInv', \A id \in Ids : Standing(id)' = Standing(id)
  PROVE  UNCHANGED Outcome
  BY OutcomeIs, OutcomeNext

LEMMA Accepts ==
  ASSUME QueryInv, QueryInv', NEW id \in Ids, Standing(id) = "none",
         \A older \in 1 .. (id - 1) : Standing(older) # "none",
         Standing(id)' = "waiting", \A i \in Ids \ {id} : Standing(i)' = Standing(i)
  PROVE  Service!Accept
<1>1. Outcome = [i \in Ids |-> Standing(i)]
  BY OutcomeIs
<1>2. Outcome' = [i \in Ids |-> Standing(i)']
  BY OutcomeNext
<1>3. \A older \in 1 .. (id - 1) : older \in Ids
  BY DEF Ids
<1>4. Outcome' = [Outcome EXCEPT ![id] = "waiting"]
  BY <1>1, <1>2
<1> QED BY <1>1, <1>3, <1>4 DEF Service!Accept, Ids

LEMMA Leaves ==
  ASSUME QueryInv, QueryInv', NEW id \in Ids, NEW how, Standing(id) = "waiting",
         \A older \in 1 .. (id - 1) : Standing(older) # "waiting",
         Standing(id)' = how, \A i \in Ids \ {id} : Standing(i)' = Standing(i)
  PROVE  Service!Leave(how)
<1>1. Outcome = [i \in Ids |-> Standing(i)]
  BY OutcomeIs
<1>2. Outcome' = [i \in Ids |-> Standing(i)']
  BY OutcomeNext
<1>3. \A older \in 1 .. (id - 1) : older \in Ids
  BY DEF Ids
<1>4. Outcome' = [Outcome EXCEPT ![id] = how]
  BY <1>1, <1>2
<1> QED BY <1>1, <1>3, <1>4 DEF Service!Leave, Ids

LEMMA Alone == ASSUME ~Pooled PROVE Conns = {0}
<1>1. Size = 1
  BY PooledAssumption
<1> QED BY <1>1 DEF Conns

\* What waits is behind the query under way.
LEMMA RunsFirst ==
  ASSUME ~Pooled, QueryInv, NEW e \in Conns, NEW id \in Ids \ Resolved, Runs(e, id)
  PROVE  /\ Standing(id) = "waiting"
         /\ \A older \in 1 .. (id - 1) : Standing(older) # "waiting"
<1>1. Standing(id) = "waiting"
  BY ConstantsTyped DEF Standing, Waits, QueryInv, Placed, TypeInv, TypeOK, Ids
<1>2. Conns = {0}
  BY Alone
<1>3. ASSUME NEW older \in 1 .. (id - 1) PROVE ~Waits(older)
  <2>1. older \in Ids /\ older < id
    BY <1>3 DEF Ids
  <2>2. older \notin Waiters(e)
    BY <2>1 DEF QueryInv, Behind, Ids
  <2>3. ~Runs(e, older)
    BY <2>1 DEF Runs
  <2> QED BY <1>2, <2>2, <2>3 DEF Waits
<1> QED BY <1>1, <1>3 DEF Standing

LEMMA AcceptedNext ==
  ASSUME QueryInv, QueryInv', NEW id \in Ids, id = lastId + 1, lastId' = id, Resolved' = Resolved,
         Waits(id)', \A i \in 1 .. lastId : Waits(i)' = Waits(i)
  PROVE  Service!Accept
<1>1. lastId \in Nat
  BY DEF QueryInv, TypeInv, TypeOK, Ids
<1>2. \A i \in Resolved : i \in Ids /\ i <= lastId
  BY ResolvedTyped DEF QueryInv, Placed, TypeInv
<1>3. Standing(id) = "none" /\ \A older \in 1 .. (id - 1) : Standing(older) # "none"
  BY <1>1 DEF Standing
<1>4. Standing(id)' = "waiting"
  BY <1>1, <1>2 DEF Standing
<1>5. ASSUME NEW i \in Ids \ {id} PROVE Standing(i)' = Standing(i)
  <2>1. i \in Nat /\ i # id /\ i >= 1
    BY <1>5 DEF Ids
  <2>2. CASE i <= lastId
    BY <1>1, <2>1, <2>2 DEF Standing
  <2>3. CASE i > lastId
    BY <1>1, <2>1, <2>3 DEF Standing
  <2> QED BY <1>1, <2>1, <2>2, <2>3
<1> QED BY <1>3, <1>4, <1>5, Accepts

\* Accepting a query, at once or in the queue.
LEMMA StartsAccepts == ASSUME QueryInv, QueryInv', NEW t \in Conns, Starts(t) PROVE Service!Accept
<1>1. PICK id \in Ids : id = lastId + 1
  BY DEF Starts
<1>2. lastId' = id /\ Resolved' = Resolved
  BY <1>1 DEF Starts
<1>3. Runs(t, id)' /\ id \notin Resolved'
  <2>1. id \notin Resolved
    BY <1>1 DEF QueryInv, Placed, TypeInv, TypeOK, Ids
  <2> QED BY <1>1, <1>2, <2>1 DEF Starts, Runs
<1>4. \A i \in 1 .. lastId : Waits(i)' = Waits(i)
  <2> SUFFICES ASSUME NEW i \in 1 .. lastId PROVE Waits(i)' = Waits(i)
    OBVIOUS
  <2>1. i \in Ids /\ i # id
    BY <1>1 DEF QueryInv, TypeInv, TypeOK, Ids
  <2>2. \A e \in Conns : Waiters(e)' = Waiters(e)
    BY DEF Starts, Waiters
  <2>3. \A e \in Conns : Runs(e, i)' = Runs(e, i)
    BY <1>1, <2>1 DEF Starts, Runs
  <2> QED BY <1>2, <2>2, <2>3 DEF Waits
<1> QED BY <1>1, <1>2, <1>3, <1>4, AcceptedNext DEF Waits

LEMMA EntersAccepts == ASSUME QueryInv, QueryInv', NEW t \in Conns, Enters(t) PROVE Service!Accept
<1>1. PICK id \in Ids : id = lastId + 1
  BY DEF Enters
<1> DEFINE call == [fn |-> "query", id |-> id, db |-> NoDb]
<1>2. lastId' = id /\ Resolved' = Resolved
  BY <1>1 DEF Enters
<1>3. /\ Waiters(t)' = Waiters(t) \cup {id}
      /\ \A e \in Conns \ {t} : Waiters(e)' = Waiters(e)
  <2>1. esql[t].queue \in Seq(Call) /\ call \in Call
    BY <1>1, ObjectTyped, CallTyped DEF Enters, QueryInv, TypeInv, EsqlRec
  <2>2. esql'[t].queue = Append(esql[t].queue, call)
    BY <1>1 DEF Enters
  <2>3. IdsOf(Append(esql[t].queue, call)) = IdsOf(esql[t].queue) \cup {id}
    BY <1>1, <2>1, IdsOfAppend
  <2>4. \A e \in Conns \ {t} : esql'[e] = esql[e]
    BY DEF Enters
  <2> QED BY <2>2, <2>3, <2>4 DEF Waiters
<1>4. \A e \in Conns : \A i \in Ids : Runs(e, i)' = Runs(e, i)
  BY DEF Enters, Runs
<1>5. \A i \in 1 .. lastId : Waits(i)' = Waits(i)
  <2> SUFFICES ASSUME NEW i \in 1 .. lastId PROVE Waits(i)' = Waits(i)
    OBVIOUS
  <2>1. i \in Ids /\ i # id
    BY <1>1 DEF QueryInv, TypeInv, TypeOK, Ids
  <2>2. \A e \in Conns : i \in Waiters(e)' <=> i \in Waiters(e)
    BY <1>3, <2>1
  <2> QED BY <1>2, <1>4, <2>1, <2>2 DEF Waits
<1> QED BY <1>1, <1>2, <1>3, <1>5, AcceptedNext DEF Waits

\* Taking a query from the queue changes nothing for the program.
LEMMA TakesStutters ==
  ASSUME ~Pooled, QueryInv, QueryInv', NEW e \in Conns, NEW d \in Conns, Takes(e, d)
  PROVE  UNCHANGED Outcome
<1>1. Conns = {0}
  BY Alone
<1>2. lastId' = lastId /\ Resolved' = Resolved
  BY DEF Takes
<1>3. PICK h \in Ids : h = Head(esql[d].queue).id
  BY DEF Takes
<1>4. h \in Waiters(d) /\ h \notin Resolved /\ Waiters(d)' = Waiters(d) \ {h}
  <2>1. esql[d].queue \in Seq(Call) /\ esql[d].queue # <<>> /\ Ordered(esql[d].queue)
    BY ObjectTyped DEF Takes, QueryInv, Placed, TypeInv, EsqlRec
  <2>2. h \in Waiters(d) /\ Waiters(d)' = Waiters(d) \ {h}
    BY <1>3, <2>1, IdsOfTail DEF Takes, Waiters
  <2> QED BY <2>2 DEF QueryInv, Placed
<1>5. ASSUME NEW i \in Ids PROVE Standing(i)' = Standing(i)
  <2>1. CASE i = h
    BY <1>2, <1>3, <1>4, <2>1 DEF Standing, Waits, Takes, Runs
  <2>2. CASE i # h
    <3>1. i \in Waiters(d)' <=> i \in Waiters(d)
      BY <1>4, <2>2
    <3>2. ~Runs(e, i)' /\ (Runs(e, i) => i \in Resolved)
      BY <1>3, <2>2 DEF Takes, Runs
    <3> QED BY <1>1, <1>2, <3>1, <3>2 DEF Standing, Waits
  <2> QED BY <2>1, <2>2
<1> QED BY <1>5, Stutters

\* The outcome of the query under way is the end of the first that waits.
LEMMA EndsEnds ==
  ASSUME ~Pooled, QueryInv, QueryInv', NEW e \in Conns, Ends(e)
  PROVE  Service!End
<1>1. PICK id \in Ids \ Resolved : id = esql[e].curId
  BY DEF Ends, QueryInv, TypeInv, QueryHasId
<1>2. lastId' = lastId /\ Resolved' = Resolved \cup {id}
  BY <1>1 DEF Ends
<1>3. Runs(e, id)
  BY <1>1 DEF Ends, Runs
<1>4. Standing(id)' = "ended"
  BY <1>2, RunsFirst, <1>3 DEF Standing
<1>5. ASSUME NEW i \in Ids \ {id} PROVE Standing(i)' = Standing(i)
  <2>1. \A f \in Conns : Waiters(f)' = Waiters(f) /\ Runs(f, i)' = Runs(f, i)
    BY DEF Ends, Waiters, Runs
  <2> QED BY <1>2, <2>1 DEF Standing, Waits
<1> QED BY <1>3, <1>4, <1>5, RunsFirst, Leaves DEF Service!End

\* A step that moves no query forgets at most the one under way.
LEMMA RestsLoses ==
  ASSUME ~Pooled, QueryInv, QueryInv', Rests
  PROVE  Service!Lose \/ UNCHANGED Outcome
<1>1. Conns = {0}
  BY Alone
<1>2. lastId' = lastId /\ Resolved' = Resolved /\ Waiters(0)' = Waiters(0)
  BY <1>1 DEF Rests, KeepsQueue, Waiters
<1>3. \A i \in Ids : Runs(0, i)' => Runs(0, i)
  BY <1>1 DEF Rests, Runs
<1>4. ASSUME NEW id \in Ids \ Resolved, Runs(0, id), ~Waits(id)' PROVE Service!Lose
  <2>1. Standing(id) = "waiting" /\ \A older \in 1 .. (id - 1) : Standing(older) # "waiting"
    BY <1>1, <1>4, RunsFirst
  <2>2. Standing(id)' = "lost"
    BY <1>2, <1>4, <2>1 DEF Standing
  <2>3. ASSUME NEW i \in Ids \ {id} PROVE Standing(i)' = Standing(i)
    <3>1. ~Runs(0, i) /\ ~Runs(0, i)'
      BY <1>3, <1>4, <2>3 DEF Runs
    <3> QED BY <1>1, <1>2, <3>1 DEF Standing, Waits
  <2> QED BY <1>4, <2>1, <2>2, <2>3, Leaves DEF Service!Lose
<1>5. CASE \A id \in Ids \ Resolved : Runs(0, id) => Waits(id)'
  <2>1. ASSUME NEW i \in Ids PROVE Standing(i)' = Standing(i)
    BY <1>1, <1>2, <1>3, <1>5 DEF Standing, Waits
  <2> QED BY <2>1, Stutters
<1> QED BY <1>4, <1>5

\* A plain object implements QueryService: every step of the event loop is one
\* of the service, or none (esql_query, esql_next, esql_call_complete,
\* esql_event_error, esql_connect).
THEOREM ServesInOrderCorrect == ~Pooled => (Spec => ServesInOrder)
<1>1. ASSUME Init PROVE Service!SInit
  <2>1. QueryInv
    BY <1>1, QueryInit
  <2>2. \A id \in Ids : Standing(id) = "none"
    BY <1>1 DEF Init, Standing, Ids
  <2> QED BY <2>1, <2>2, OutcomeIs DEF Service!SInit, Ids
<1>2. ASSUME ~Pooled, QueryInv, QueryInv', [Next]_vars PROVE [Service!SNext]_Outcome
  <2>1. Effect
    BY <1>2, EffectStep
  <2>2. CASE Rests
    BY <1>2, <2>2, RestsLoses DEF Service!SNext
  <2>3. ASSUME NEW t \in Conns, Starts(t) \/ Enters(t) PROVE Service!SNext
    BY <1>2, <2>3, StartsAccepts, EntersAccepts DEF Service!SNext
  <2>4. ASSUME NEW e \in Conns, NEW d \in Conns, Takes(e, d) PROVE UNCHANGED Outcome
    BY <1>2, <2>4, TakesStutters
  <2>5. ASSUME NEW e \in Conns, Ends(e) PROVE Service!SNext
    BY <1>2, <2>5, EndsEnds DEF Service!SNext
  <2> QED BY <2>1, <2>2, <2>3, <2>4, <2>5 DEF Effect
<1>3. ASSUME ~Pooled PROVE Spec => ServesInOrder
  <2>1. QueryInv /\ QueryInv' /\ [Next]_vars => [Service!SNext]_Outcome
    BY <1>2, <1>3
  <2>2. Init => Service!SInit
    BY <1>1
  <2> QED BY <2>1, <2>2, QueryInvariant, PTL DEF Spec, ServesInOrder, Service!SSpec
<1> QED BY <1>3
----------------------------------------------------------------------------
(* The client gets its commands one at a time *)

\* When a call is complete its exchange is over, and a switch still under way
\* when esql_next runs is complete.
SwitchOver ==
  /\ run.at = "complete" => esql[run.e].m.proto \notin {"query", "db"}
  /\ run.at = "next" /\ esql[run.e].current = "database_set" => esql[run.e].m.proto # "db"

LEMMA DoneProto ==
  ASSUME NEW m \in MYSAC, NEW n \in Done(m) PROVE n.proto \notin {"query", "db"}
<1>1. Ended(m).proto \notin {"query", "db"} /\ Ended(m) \in MYSAC
  <2>1. Ended(m).proto \notin {"query", "db"}
    BY DEF Ended, MYSAC
  <2>2. Ended(m) \in MYSAC
    BY DEF Ended, MYSAC, Protos, NoDb
  <2> QED BY <2>1, <2>2
<1>2. ClearError(Ended(m)).proto = Ended(m).proto
  BY <1>1 DEF ClearError, MYSAC
<1> QED BY <1>1, <1>2 DEF Done

\* The current call of an object does not change while its client forgets an error.
LEMMA ForgetsError ==
  ASSUME TypeOK, FreesError \/ esql' = esql, NEW e \in Conns
  PROVE  /\ esql'[e].current = esql[e].current /\ esql'[e].curId = esql[e].curId
         /\ esql'[e].m.ask = esql[e].m.ask
<1>1. esql[e] \in EsqlRec /\ esql[e].m \in MYSAC
  BY ObjectTyped
<1>2. CASE e = 0 /\ FreesError
  <2>1. esql'[e] = [esql[e] EXCEPT !.m = ClearError(esql[e].m)]
    BY <1>2 DEF TypeOK, FreesError
  <2>2. ClearError(esql[e].m).ask = esql[e].m.ask
    BY <1>1 DEF ClearError, MYSAC
  <2> QED BY <1>1, <2>1, <2>2 DEF EsqlRec
<1>3. CASE e # 0 \/ esql' = esql
  BY <1>3 DEF TypeOK, FreesError
<1> QED BY <1>2, <1>3

LEMMA OverProgram ==
  ASSUME run.at \notin {"complete", "next"}, run'.at \notin {"complete", "next"} PROVE SwitchOver'
  BY DEF SwitchOver

LEMMA OverIoDone == ASSUME TypeOK, NEW e \in Conns, IoDone(e) PROVE SwitchOver'
<1>1. esql[e] \in EsqlRec /\ esql[e].m \in MYSAC /\ run.e = e
  BY ObjectTyped DEF IoDone, At
<1>2. PICK m \in Done(esql[e].m) : esql' = [esql EXCEPT ![e].m = m]
  BY DEF IoDone
<1>3. esql'[e].m = m
  BY <1>1, <1>2 DEF TypeOK, EsqlRec
<1>4. run'.at = "complete" /\ run'.e = e
  BY <1>1 DEF IoDone, Goto, TypeOK
<1> QED BY <1>1, <1>3, <1>4, DoneProto DEF SwitchOver

LEMMA OverComplete == ASSUME TypeOK, SwitchOver, NEW e \in Conns, Complete(e) PROVE SwitchOver'
<1>1. run.at = "complete" /\ run.e = e /\ run'.e = e /\ run'.at \in {"ready", "next", "result"}
  BY DEF Complete, CompleteInit, CompleteQuery, CompleteOther, At, Goto, TypeOK
<1>2. CASE CompleteInit(e)
  <2>1. esql'[e] = [esql[e] EXCEPT !.connected = TRUE] /\ esql[e] \in EsqlRec /\ esql[e].current = "init"
    BY <1>2, ObjectTyped DEF CompleteInit, TypeOK
  <2>2. esql'[e].current = "init"
    BY <2>1 DEF EsqlRec
  <2> QED BY <1>1, <2>2 DEF SwitchOver
<1>3. CASE CompleteQuery(e) \/ CompleteOther(e)
  <2>1. esql' = esql
    BY <1>3 DEF CompleteQuery, CompleteOther
  <2> QED BY <1>1, <2>1 DEF SwitchOver
<1> QED BY <1>2, <1>3 DEF Complete

\* The callbacks return to an object that is in its handshake or in its query.
LEMMA OverCbReturns == ASSUME QueryInv, NEW e \in Conns, CbReturns(e) PROVE SwitchOver'
<1>1. run.e = e /\ run'.e = e /\ run'.at \in {"next", "down"}
      /\ run.at \in {"ready", "refused", "result", "failed"}
      /\ (run.at = "refused" => run'.at = "down")
  BY DEF CbReturns, ConnectCbReturns, QueryCbReturns, At, Goto, AfterFailure, QueryInv, TypeInv, TypeOK
<1>2. run.at # "refused" => esql[e].current \in {"init", "query"}
  BY <1>1 DEF QueryInv, Control
<1>3. esql'[e].current = esql[e].current
  BY ForgetsError DEF CbReturns, ConnectCbReturns, QueryCbReturns, ResultReturned, QueryInv, TypeInv
<1> QED BY <1>1, <1>2, <1>3 DEF SwitchOver

LEMMA OverError == ASSUME TypeOK, NEW e \in Conns, Error(e) PROVE SwitchOver'
<1>1. CASE ErrorQuery(e)
  <2>1. esql' = esql /\ esql[e].current = "query" /\ run'.e = e /\ run'.at # "complete"
    BY <1>1 DEF ErrorQuery, At, Goto, AfterFailure, TypeOK
  <2> QED BY <2>1 DEF SwitchOver
<1>2. CASE ErrorOther(e) \/ Down(e)
  <2>1. run'.at \notin {"complete", "next"}
    BY <1>2 DEF ErrorOther, Down, Goto, Idle, TypeOK
  <2> QED BY <2>1 DEF SwitchOver
<1> QED BY <1>1, <1>2 DEF Error

LEMMA OverStep == QueryInv /\ SwitchOver /\ [Next]_vars => SwitchOver'
<1> SUFFICES ASSUME QueryInv, SwitchOver, [Next]_vars PROVE SwitchOver'
  OBVIOUS
<1>1. TypeOK
  BY DEF QueryInv, TypeInv
<1>2. CASE UNCHANGED vars
  BY <1>2 DEF vars, SwitchOver
<1>3. CASE Program \/ ResultEvent \/ ResultUnref
  <2>1. run.at \in ProgramPoints /\ run'.at = run.at
    BY <1>1, <1>3 DEF Program, Connect, Disconnect, DatabaseSet, TimeoutSet, ReconnectSet,
       QueryCallbackSet, QueryStart, QueryQueue, QueryRefused, Queryable, Issue, ProgramTurn,
       ResultEvent, ResultUnref, LoopTurn, ProgramPoints, TypeOK
  <2> QED BY <2>1, OverProgram DEF ProgramPoints
<1>4. ASSUME NEW e \in Conns, Sources(e) PROVE SwitchOver'
  <2>1. run'.at \notin {"complete", "next"}
    BY <1>4 DEF Sources, FdReady, RunJob, TimeoutFires, ReconnectFires, LoopTurn
  <2> QED BY <2>1 DEF SwitchOver
<1>5. ASSUME NEW e \in Conns, Chain(e) PROVE SwitchOver'
  <2>1. CASE IoWait(e) \/ IoFail(e)
    <3>1. run'.at \notin {"complete", "next"}
      BY <1>1, <2>1 DEF IoWait, IoFail, Goto, Idle, TypeOK
    <3> QED BY <3>1 DEF SwitchOver
  <2>2. CASE NextCall(e)
    <3>1. run'.at \notin {"complete", "next"}
      <4>1. CASE NextIdle(e)
        BY <4>1 DEF NextIdle, Idle
      <4>2. CASE NextDatabase(e)
        BY <1>1, <4>2 DEF NextDatabase, TypeOK
      <4>3. CASE NextQuery(e)
        BY <1>1, <4>3 DEF NextQuery, TypeOK
      <4> QED BY <2>2, <4>1, <4>2, <4>3 DEF NextCall
    <3> QED BY <3>1 DEF SwitchOver
  <2> QED BY <1>1, <1>5, <2>1, <2>2, OverIoDone, OverComplete, OverCbReturns, OverError DEF Chain, Io
<1> QED BY <1>2, <1>3, <1>4, <1>5 DEF Next

LEMMA NotNew ==
  ASSUME NEW s, NEW t, t.current = s.current, t.curId = s.curId, t.m.ask = s.m.ask
  PROVE  NoNewCommand(s, t)
  BY DEF NoNewCommand

\* What a call of io does to a client in the middle of an exchange.
LEMMA ExchangeEnds ==
  ASSUME NEW m \in MYSAC, Talking(m), m.proto \in {"query", "db"}
  PROVE  /\ \A n \in Waiting(m) : n.ask = m.ask
         /\ \A n \in Done(m) \cup Failing(m) : n.proto \notin {"query", "db"}
<1>1. ClearError(m).ask = m.ask
  BY DEF ClearError, MYSAC
<1>2. Waiting(m) = {m, ClearError(m)}
  BY DEF Waiting, Talking, Exchange
<1>3. \A s \in Sockets : \A b \in Breaking(m, s) : b.proto = "failed"
  BY DEF Breaking, Broken, SetError, MYSAC
<1>4. "live" \in Sockets /\ "dead" \in Sockets
  BY DEF Sockets
<1>5. Failing(m) = Breaking(m, "live") \cup Breaking(m, "dead")
  BY DEF Failing, Doomed, Talking, Exchange
<1> QED BY <1>1, <1>2, <1>3, <1>4, <1>5, DoneProto

\* A dial over it fails, in esql_reconnect_handler without touching it and in
\* esql_connect after esql_mysac_setup has broken it off.
LEMMA DialOverExchange ==
  ASSUME NEW s \in EsqlRec, s.m \in MYSAC, s.m.proto \in {"query", "db"}
  PROVE  /\ Dialled(s) = {}
         /\ \A t \in NotDialled(s) : NoNewCommand(s, t)
<1>1. ConnectWaiting(s.m) = {} /\ ConnectDone(s.m) = {} /\ ConnectFailing(s.m) = {SetError(s.m)}
  BY DEF ConnectWaiting, ConnectDone, ConnectFailing
<1>2. ASSUME NEW t \in NotDialled(s) PROVE NoNewCommand(s, t)
  <2>1. t = [s EXCEPT !.m = SetError(s.m)]
    BY <1>1 DEF NotDialled
  <2>2. SetError(s.m).ask = s.m.ask
    BY DEF SetError, MYSAC
  <2> QED BY <2>1, <2>2, NotNew DEF EsqlRec
<1> QED BY <1>1, <1>2 DEF Dialled

LEMMA DialOverSetup ==
  ASSUME NEW s \in EsqlRec, s.m \in MYSAC, s.m.proto = "failed"
  PROVE  /\ Dialled(s) = {}
         /\ \A t \in NotDialled(s) : t.m.proto \notin {"query", "db"}
<1>1. ConnectWaiting(s.m) = {} /\ ConnectDone(s.m) = {} /\ ConnectFailing(s.m) = Failing(s.m)
  BY DEF ConnectWaiting, ConnectDone, ConnectFailing
<1>2. \A n \in Failing(s.m) : n.proto \in {"start", "failed"}
  BY FailsDetached
<1>3. ASSUME NEW t \in NotDialled(s) PROVE t.m.proto \notin {"query", "db"}
  <2>1. PICK n \in Failing(s.m) : t = [s EXCEPT !.m = n]
    BY <1>1 DEF NotDialled
  <2> QED BY <1>2, <2>1 DEF EsqlRec
<1> QED BY <1>1, <1>3 DEF Dialled

InTurn == \A e \in Conns : MidCall(esql[e]) => NoNewCommand(esql[e], esql'[e])

LEMMA InTurnUnchanged == ASSUME esql' = esql PROVE InTurn
  BY DEF InTurn, NoNewCommand

\* A step that changes one object.
LEMMA InTurnOne ==
  ASSUME TypeOK, NEW e \in Conns, NEW t, esql' = [esql EXCEPT ![e] = t],
         MidCall(esql[e]) => NoNewCommand(esql[e], t)
  PROVE  InTurn
<1>1. \A f \in Conns : esql'[f] = IF f = e THEN t ELSE esql[f]
  BY DEF TypeOK
<1> QED BY <1>1 DEF InTurn, NoNewCommand

LEMMA InTurnConnect == TypeOK /\ Connect => InTurn
<1> SUFFICES ASSUME TypeOK, Connect, NEW e \in Conns, MidCall(esql[e])
             PROVE  NoNewCommand(esql[e], esql'[e])
  BY DEF InTurn
<1> DEFINE s == esql[e]
           ready == [s EXCEPT !.m = Setup(@)]
<1>1. esql'[e] \in IF s.connected THEN {s} ELSE Dialled(ready) \cup NotDialled(ready)
  BY DEF Connect
<1>2. s \in EsqlRec /\ s.m \in MYSAC /\ s.m.proto \in {"query", "db"}
  BY ObjectTyped DEF MidCall
<1>3. ready \in EsqlRec /\ ready.m \in MYSAC /\ ready.m.proto = "failed"
  <2>1. Setup(s.m) \in MYSAC /\ Setup(s.m).proto = "failed"
    BY <1>2, CommandsTyped DEF Setup, MYSAC
  <2> QED BY <1>2, <2>1 DEF EsqlRec
<1> HIDE DEF ready
<1> QED BY <1>1, <1>3, DialOverSetup DEF NoNewCommand

LEMMA InTurnDisconnect == TypeOK /\ Disconnect => InTurn
<1> SUFFICES ASSUME TypeOK, Disconnect, NEW e \in Conns PROVE NoNewCommand(esql[e], esql'[e])
  BY DEF InTurn
<1>1. esql'[e] = esql[e] \/ esql'[e] = Closed(esql[e])
  BY DEF Disconnect
<1>2. esql[e] \in EsqlRec
  BY ObjectTyped
<1> QED BY <1>1, <1>2 DEF NoNewCommand, Closed, EsqlRec

\* An object with a call under way queues the switch.
LEMMA InTurnDatabaseSet == ASSUME TypeOK, NEW d \in DbNames, DatabaseSet(d) PROVE InTurn
<1> SUFFICES ASSUME NEW e \in Conns, MidCall(esql[e]) PROVE NoNewCommand(esql[e], esql'[e])
  BY DEF InTurn
<1>1. esql'[e] = DatabaseSwitched(esql[e], d) /\ esql[e] \in EsqlRec /\ esql[e].current # "none"
  BY ObjectTyped DEF DatabaseSet, MidCall
<1> QED BY <1>1 DEF NoNewCommand, DatabaseSwitched, Enqueued, EsqlRec

LEMMA InTurnProgram == TypeOK /\ Program => InTurn
<1> SUFFICES ASSUME TypeOK, Program PROVE InTurn
  OBVIOUS
<1>1. ASSUME NEW on \in BOOLEAN, TimeoutSet(on) PROVE InTurn
  <2> SUFFICES ASSUME NEW e \in Conns PROVE NoNewCommand(esql[e], esql'[e])
    BY DEF InTurn
  <2>1. esql'[e] = [esql[e] EXCEPT !.timeout = on] /\ esql[e] \in EsqlRec
    BY <1>1, ObjectTyped DEF TimeoutSet
  <2> QED BY <2>1 DEF NoNewCommand, EsqlRec
<1>2. ASSUME NEW on \in BOOLEAN, ReconnectSet(on) PROVE InTurn
  BY <1>2, InTurnUnchanged DEF ReconnectSet
<1>3. ASSUME NEW id \in Ids, QueryCallbackSet(id) PROVE InTurn
  BY <1>3, InTurnUnchanged DEF QueryCallbackSet
<1>4. ASSUME NEW t \in Conns, QueryStart(t) PROVE InTurn
  <2>1. ~MidCall(esql[t]) /\ esql' = [esql EXCEPT ![t] = Started(esql[t], lastId + 1)]
    BY <1>4 DEF QueryStart, Issue, MidCall
  <2> QED BY <2>1, InTurnOne
<1>5. ASSUME NEW t \in Conns, QueryQueue(t) PROVE InTurn
  <2>1. PICK call : esql' = [esql EXCEPT ![t] = Enqueued(esql[t], call)]
    BY <1>5 DEF QueryQueue, Issue
  <2>2. NoNewCommand(esql[t], Enqueued(esql[t], call))
    BY ObjectTyped DEF Enqueued, NoNewCommand, EsqlRec
  <2> QED BY <2>1, <2>2, InTurnOne
<1>6. ASSUME NEW t \in Conns, QueryRefused(t) PROVE InTurn
  <2>1. PICK m : esql' = [esql EXCEPT ![t].m = m]
    BY <1>6 DEF QueryRefused
  <2>2. esql' = [esql EXCEPT ![t] = [esql[t] EXCEPT !.m = m]] /\ ~MidCall(esql[t])
    BY <1>6, <2>1 DEF QueryRefused, MidCall, TypeOK
  <2> QED BY <2>2, InTurnOne
<1> QED BY <1>1, <1>2, <1>3, <1>4, <1>5, <1>6, InTurnConnect, InTurnDisconnect, InTurnDatabaseSet
        DEF Program

LEMMA InTurnErrorForgotten == ASSUME TypeOK, FreesError \/ esql' = esql PROVE InTurn
<1>1. ASSUME NEW e \in Conns PROVE NoNewCommand(esql[e], esql'[e])
  <2>1. /\ esql'[e].current = esql[e].current /\ esql'[e].curId = esql[e].curId
        /\ esql'[e].m.ask = esql[e].m.ask
    BY ForgetsError
  <2> QED BY <2>1, NotNew
<1> QED BY <1>1 DEF InTurn

LEMMA InTurnClosed ==
  ASSUME TypeOK, NEW e \in Conns, NEW s \in EsqlRec, CloseAndRetry(e, s) PROVE InTurn
<1>1. PICK n : esql' = [esql EXCEPT ![e] = [Closed(s) EXCEPT !.rtimers = n]]
  BY DEF CloseAndRetry
<1>2. [Closed(s) EXCEPT !.rtimers = n].m = Fresh
  BY DEF Closed, EsqlRec
<1> QED BY <1>1, <1>2, InTurnOne DEF NoNewCommand

LEMMA InTurnSources == ASSUME TypeOK, NEW e \in Conns, Sources(e) PROVE InTurn
<1>1. esql[e] \in EsqlRec /\ esql[e].m \in MYSAC
  BY ObjectTyped
<1>2. CASE FdReady(e)
  <2>1. PICK h : esql' = [esql EXCEPT ![e] = Active(esql[e], h, "off")]
    BY <1>2 DEF FdReady
  <2>2. NoNewCommand(esql[e], Active(esql[e], h, "off"))
    BY <1>1 DEF NoNewCommand, Active, EsqlRec
  <2> QED BY <2>1, <2>2, InTurnOne
<1>3. CASE RunJob(e)
  <2> DEFINE r == [esql[e] EXCEPT !.job = FALSE]
  <2>1. esql' = [esql EXCEPT ![e] = Active(r, "fdh", "off")]
    BY <1>3 DEF RunJob
  <2>2. r \in EsqlRec /\ NoNewCommand(esql[e], r) /\ r.m = esql[e].m
        /\ r.current = esql[e].current /\ r.curId = esql[e].curId
    BY <1>1 DEF NoNewCommand, EsqlRec
  <2> HIDE DEF r
  <2>3. NoNewCommand(esql[e], Active(r, "fdh", "off"))
    BY <2>2 DEF NoNewCommand, Active, EsqlRec
  <2> QED BY <2>1, <2>3, InTurnOne
<1>4. CASE TimeoutFires(e)
  <2>1. [esql[e] EXCEPT !.timeout = FALSE] \in EsqlRec
    BY <1>1 DEF EsqlRec
  <2> QED BY <1>4, <2>1, InTurnClosed DEF TimeoutFires
<1>5. CASE ReconnectFires(e)
  <2> DEFINE s == [esql[e] EXCEPT !.rtimers = @ - 1]
  <2>1. s \in EsqlRec /\ s.m = esql[e].m /\ s.current = esql[e].current /\ s.curId = esql[e].curId
    <3>1. esql[e].rtimers - 1 \in Nat
      BY <1>1, <1>5 DEF ReconnectFires, EsqlRec
    <3> QED BY <1>1, <3>1 DEF EsqlRec
  <2>2. \/ \E r \in Dialled(s) : TRUE
        \/ \E r \in NotDialled(s) : esql' = [esql EXCEPT ![e] = r]
    BY <1>5 DEF ReconnectFires
  <2>3. PICK r : esql' = [esql EXCEPT ![e] = r] /\ (Dialled(s) = {} => r \in NotDialled(s))
    BY <1>5 DEF ReconnectFires
  <2> HIDE DEF s
  <2>4. MidCall(esql[e]) => NoNewCommand(esql[e], r)
    <3> SUFFICES ASSUME MidCall(esql[e]) PROVE NoNewCommand(esql[e], r)
      OBVIOUS
    <3>1. s.m.proto \in {"query", "db"}
      BY <2>1 DEF MidCall
    <3>2. NoNewCommand(s, r)
      BY <1>1, <2>1, <2>3, <3>1, DialOverExchange
    <3> QED BY <2>1, <3>2 DEF NoNewCommand
  <2> QED BY <2>3, <2>4, InTurnOne
<1> QED BY <1>2, <1>3, <1>4, <1>5 DEF Sources

LEMMA InTurnIo == ASSUME TypeOK, NEW e \in Conns, Io(e) PROVE InTurn
<1>1. esql[e] \in EsqlRec /\ esql[e].m \in MYSAC
  BY ObjectTyped
<1>2. MidCall(esql[e]) => Talking(esql[e].m) /\ esql[e].m.proto \in {"query", "db"}
  BY DEF MidCall
<1>3. CASE IoWait(e)
  <2>1. PICK m \in Waiting(esql[e].m) : esql' = [esql EXCEPT ![e] = Active([@ EXCEPT !.m = m], run.h, "armed")]
    BY <1>3 DEF IoWait
  <2> DEFINE r == [esql[e] EXCEPT !.m = m]
  <2>2. /\ r \in EsqlRec /\ r.m = m /\ r.current = esql[e].current /\ r.curId = esql[e].curId
    BY <1>1, IoTyped DEF EsqlRec
  <2> HIDE DEF r
  <2>3. esql' = [esql EXCEPT ![e] = Active(r, run.h, "armed")]
    BY <2>1 DEF r
  <2>4. LET t == Active(r, run.h, "armed")
        IN t.m = m /\ t.current = esql[e].current /\ t.curId = esql[e].curId
    BY <2>2 DEF Active, EsqlRec
  <2>5. MidCall(esql[e]) => m.ask = esql[e].m.ask
    BY <1>1, <1>2, ExchangeEnds
  <2>6. MidCall(esql[e]) => NoNewCommand(esql[e], Active(r, run.h, "armed"))
    BY <2>4, <2>5, NotNew
  <2> QED BY <2>3, <2>6, InTurnOne
<1>4. CASE IoDone(e) \/ IoFail(e)
  <2>1. PICK m \in Done(esql[e].m) \cup Failing(esql[e].m) : esql' = [esql EXCEPT ![e].m = m]
    BY <1>4 DEF IoDone, IoFail
  <2>2. esql' = [esql EXCEPT ![e] = [esql[e] EXCEPT !.m = m]] /\ [esql[e] EXCEPT !.m = m].m = m
    BY <1>1, <2>1 DEF TypeOK, EsqlRec
  <2>3. MidCall(esql[e]) => m.proto \notin {"query", "db"}
    BY <1>1, <1>2, ExchangeEnds
  <2> QED BY <2>2, <2>3, InTurnOne DEF NoNewCommand
<1> QED BY <1>3, <1>4 DEF Io

\* esql_next finds no call of run.e in the middle of its exchange.
LEMMA InTurnNextCall ==
  ASSUME QueryInv, SwitchOver, NEW e \in Conns, NextCall(e) PROVE InTurn
<1>1. run.at = "next" /\ run.e = e /\ TypeOK
  BY DEF NextCall, NextIdle, NextDatabase, NextQuery, At, QueryInv, TypeInv
<1>2. ~MidCall(esql[e])
  BY <1>1 DEF MidCall, SwitchOver, QueryInv, Control
<1>3. CASE NextIdle(e) \/ NextDatabase(e)
  <2>1. PICK t : esql' = [esql EXCEPT ![e] = t]
    BY <1>3 DEF NextIdle, NextDatabase
  <2> QED BY <1>1, <1>2, <2>1, InTurnOne
<1>4. CASE NextQuery(e)
  <2>1. PICK t : esql' = [Rebalanced(e) EXCEPT ![e] = t]
    BY <1>4 DEF NextQuery
  <2>2. ASSUME NEW f \in Conns, f # e PROVE NoNewCommand(esql[f], esql'[f])
    <3>1. esql'[f] = Rebalanced(e)[f]
      BY <1>1, <2>1, <2>2, RebalancedTyped
    <3> QED BY <1>1, <3>1, RebalancedTyped, RebalancedParts, NotNew
  <2> QED BY <1>2, <2>2 DEF InTurn
<1> QED BY <1>3, <1>4 DEF NextCall

LEMMA InTurnStep == QueryInv /\ SwitchOver /\ [Next]_vars => InTurn
<1> SUFFICES ASSUME QueryInv, SwitchOver, [Next]_vars PROVE InTurn
  OBVIOUS
<1>1. TypeOK
  BY DEF QueryInv, TypeInv
<1>2. CASE UNCHANGED vars
  BY <1>2, InTurnUnchanged DEF vars
<1>3. ASSUME NEW e \in Conns, Complete(e) PROVE InTurn
  <2>1. CASE CompleteInit(e)
    <3>1. esql' = [esql EXCEPT ![e] = [esql[e] EXCEPT !.connected = TRUE]] /\ ~MidCall(esql[e])
      BY <1>1, <2>1 DEF CompleteInit, MidCall, TypeOK
    <3> QED BY <1>1, <3>1, InTurnOne
  <2> QED BY <1>3, <2>1, InTurnUnchanged DEF Complete, CompleteQuery, CompleteOther
<1>4. ASSUME NEW e \in Conns, Error(e) PROVE InTurn
  <2>1. CASE Down(e)
    BY <1>1, <2>1, ObjectTyped, InTurnClosed DEF Down
  <2> QED BY <1>4, <2>1, InTurnUnchanged DEF Error, ErrorQuery, ErrorOther
<1>5. ASSUME NEW e \in Conns, CbReturns(e) PROVE InTurn
  BY <1>1, <1>5, InTurnErrorForgotten
     DEF CbReturns, ConnectCbReturns, QueryCbReturns, ResultReturned
<1>6. ASSUME NEW e \in Conns, Chain(e) PROVE InTurn
  BY <1>1, <1>3, <1>4, <1>5, <1>6, InTurnIo, InTurnNextCall DEF Chain
<1>7. ResultEvent \/ ResultUnref => InTurn
  BY <1>1, InTurnErrorForgotten DEF ResultEvent, ResultUnref, ResultReturned
<1> QED BY <1>1, <1>2, <1>6, <1>7, InTurnProgram, InTurnSources DEF Next

\* No step gives a client a command while it is in the middle of the exchange
\* of the call under way, of however many members, timers and dials: a call is
\* replaced after its end (esql_next), or with the connection (esql_disconnect).
THEOREM CommandsInTurnCorrect == Spec => CommandsInTurn
<1>1. Init => SwitchOver
  BY DEF Init, Idle, SwitchOver
<1>2. Spec => []SwitchOver
  BY <1>1, OverStep, QueryInvariant, PTL DEF Spec
<1>3. QueryInv /\ SwitchOver /\ [Next]_vars =>
        \A e \in Conns : MidCall(esql[e]) => NoNewCommand(esql[e], esql'[e])
  BY InTurnStep DEF InTurn
<1> QED BY <1>2, <1>3, QueryInvariant, PTL DEF Spec, CommandsInTurn

----------------------------------------------------------------------------
(***************************************************************************)
(* The database of a query.  In a plain object's only session the database *)
(* a query will find is that of the last switch in front of it, or, with   *)
(* none there, the one the client has selected or is selecting.            *)
(***************************************************************************)

\* A call at place i of q, behind a client that is at database base, finds d.
Reaches(q, base, i, d) ==
  \/ d = base /\ \A j \in 1 .. (i - 1) : q[j].fn = "query"
  \/ \E j \in 1 .. (i - 1) :
       /\ q[j].fn = "database_set" /\ q[j].db = d
       /\ \A k \in (j + 1) .. (i - 1) : q[k].fn = "query"

\* What is put behind a call does not change what it finds.
LEMMA ReachesAppend ==
  ASSUME NEW q \in Seq(Call), NEW c \in Call, NEW i \in 1 .. (Len(q) + 1), NEW base, NEW d,
         Reaches(q, base, i, d)
  PROVE  Reaches(Append(q, c), base, i, d)
<1> DEFINE r == Append(q, c)
<1>1. \A j \in 1 .. (i - 1) : r[j] = q[j]
  OBVIOUS
<1> HIDE DEF r
<1>2. \A j \in 1 .. (i - 1) : \A k \in (j + 1) .. (i - 1) : k \in 1 .. (i - 1)
  OBVIOUS
<1> DEFINE base0 == d = base /\ \A j \in 1 .. (i - 1) : q[j].fn = "query"
           at(j) == /\ q[j].fn = "database_set" /\ q[j].db = d
                    /\ \A k \in (j + 1) .. (i - 1) : q[k].fn = "query"
<1>3. base0 \/ \E j \in 1 .. (i - 1) : at(j)
  BY Zenon DEF Reaches
<1>4. CASE base0
  BY <1>1, <1>4 DEF Reaches
<1>5. CASE ~base0
  <2>1. PICK j \in 1 .. (i - 1) : at(j)
    BY <1>3, <1>5
  <2>2. \A k \in (j + 1) .. (i - 1) : r[k].fn = "query"
    BY <1>1, <1>2, <2>1
  <2> QED BY <1>1, <2>1, <2>2 DEF Reaches
<1> QED BY <1>4, <1>5 DEF r

\* A further call finds what the last one would have, and what that switches to.
LEMMA ReachesPast ==
  ASSUME NEW q \in Seq(Call), NEW c \in Call, NEW base, NEW d
  PROVE  /\ c.fn = "query" /\ Reaches(q, base, Len(q) + 1, d) =>
              Reaches(Append(q, c), base, Len(q) + 2, d)
         /\ c.fn = "database_set" => Reaches(Append(q, c), base, Len(q) + 2, c.db)
<1> DEFINE r == Append(q, c)
           n == Len(q) + 1
<1>1. Len(q) \in Nat /\ n \in Nat \ {0} /\ n - 1 = Len(q) /\ (Len(q) + 2) - 1 = n
  OBVIOUS
<1>2. r[n] = c /\ \A j \in 1 .. (n - 1) : r[j] = q[j]
  OBVIOUS
<1> HIDE DEF r, n
<1>3. \A j \in 1 .. n : j = n \/ j \in 1 .. (n - 1)
  BY <1>1
<1>4. ASSUME c.fn = "query", Reaches(q, base, n, d) PROVE Reaches(r, base, Len(q) + 2, d)
  <2>1. CASE d = base /\ \A j \in 1 .. (n - 1) : q[j].fn = "query"
    BY <1>1, <1>2, <1>3, <1>4, <2>1 DEF Reaches
  <2>2. ASSUME NEW j \in 1 .. (n - 1), q[j].fn = "database_set", q[j].db = d,
               \A k \in (j + 1) .. (n - 1) : q[k].fn = "query"
        PROVE  Reaches(r, base, Len(q) + 2, d)
    <3>1. j \in 1 .. n /\ r[j] = q[j]
      BY <1>1, <1>2
    <3>2. ASSUME NEW k \in (j + 1) .. n PROVE r[k].fn = "query"
      <4>1. k = n \/ (k \in (j + 1) .. (n - 1) /\ k \in 1 .. (n - 1))
        BY <1>1
      <4> QED BY <1>2, <1>4, <2>2, <4>1
    <3> QED BY <1>1, <2>2, <3>1, <3>2 DEF Reaches
  <2> QED BY <1>4, <2>1, <2>2 DEF Reaches
<1>5. ASSUME c.fn = "database_set" PROVE Reaches(r, base, Len(q) + 2, c.db)
  <2>1. n \in 1 .. n /\ (n + 1) .. n = {}
    BY <1>1
  <2> QED BY <1>1, <1>2, <1>5, <2>1 DEF Reaches
<1> QED BY <1>4, <1>5 DEF r, n

\* Popping the head changes what the others find by what the head did.
LEMMA ReachesTail ==
  ASSUME NEW q \in Seq(Call), q # <<>>, NEW i \in 1 .. Len(q), NEW base, NEW d,
         Reaches(q, base, i + 1, d)
  PROVE  /\ Head(q).fn = "query" => Reaches(Tail(q), base, i, d)
         /\ Head(q).fn = "database_set" => Reaches(Tail(q), Head(q).db, i, d)
<1> DEFINE r == Tail(q)
<1>1. /\ Len(q) \in Nat \ {0} /\ i \in Nat \ {0} /\ Head(q) = q[1]
      /\ \A j \in 1 .. (i - 1) : j + 1 \in 1 .. i /\ r[j] = q[j + 1]
      /\ (i + 1) - 1 = i
  OBVIOUS
<1> HIDE DEF r
<1>2. CASE d = base /\ \A j \in 1 .. i : q[j].fn = "query"
  <2>1. 1 \in 1 .. i
    BY <1>1
  <2>2. \A j \in 1 .. (i - 1) : r[j].fn = "query"
    BY <1>1, <1>2
  <2> QED BY <1>1, <1>2, <2>1, <2>2 DEF Reaches, r
<1>3. ASSUME NEW j \in 1 .. i, q[j].fn = "database_set", q[j].db = d,
             \A k \in (j + 1) .. i : q[k].fn = "query"
      PROVE  /\ Head(q).fn = "query" => Reaches(r, base, i, d)
             /\ Head(q).fn = "database_set" => Reaches(r, Head(q).db, i, d)
  <2>1. CASE j = 1
    <3>1. ASSUME NEW k \in 1 .. (i - 1) PROVE r[k].fn = "query"
      <4>1. k + 1 \in (j + 1) .. i
        BY <1>1, <2>1
      <4> QED BY <1>1, <1>3, <4>1
    <3> QED BY <1>1, <1>3, <2>1, <3>1 DEF Reaches
  <2>2. CASE j # 1
    <3>1. j - 1 \in 1 .. (i - 1) /\ (j - 1) + 1 = j
      BY <1>1, <2>2
    <3>2. r[j - 1] = q[j]
      BY <1>1, <3>1
    <3>3. ASSUME NEW k \in ((j - 1) + 1) .. (i - 1) PROVE r[k].fn = "query"
      <4>1. k + 1 \in (j + 1) .. i /\ k \in 1 .. (i - 1)
        BY <1>1, <3>1
      <4> QED BY <1>1, <1>3, <4>1
    <3> QED BY <1>3, <3>1, <3>2, <3>3 DEF Reaches
  <2> QED BY <2>1, <2>2
<1> QED BY <1>1, <1>2, <1>3 DEF Reaches, r

\* The plain object is in its only session, or in none yet.
InSession == ~Pooled /\ OneSession
Unborn == budget["connect"] = Budget["connect"]
NotYet(s) == s.m = Fresh /\ s.current = "none" /\ ~s.connected /\ ~HasHandler(s) /\ ~s.job

\* The object at point at of the chain, with its descriptor watched, ...
Open(s, at) ==
  /\ HasHandler(s)
  /\ s.connected \/ (s.current = "init" /\ at \notin {"next", "ready"})
  /\ s.m.proto = "db" => s.current = "database_set" /\ at \in {"loop", "io", "refused", "down"}
  /\ at \in {"result", "failed"} => s.current = "query"
  /\ at = "ready" => s.current = "init"
  /\ s.current = "none" => s.queue = <<>>

\* ... and with nothing any more that could complete a call: a client without
\* a server, or nothing that will run it.
Deaf(m) == m.sock = "none" /\ m.proto \in {"start", "query", "failed"}
Shut(s, at) ==
  /\ ~HasHandler(s) /\ ~s.connected
  /\ at \notin {"complete", "ready", "result"}
  /\ s.job => at = "loop"
  /\ at # "loop" \/ s.job => Deaf(s.m)

\* The database the call at the head of the queue will find.
Base(s) == IF s.m.proto = "db" THEN s.m.ask ELSE s.m.db

\* Every query finds the database it was made for, and so would one made now.
Ahead(q, base) ==
  /\ \A i \in DOMAIN q : q[i].fn = "query" /\ issuedFor[q[i].id] # NoDb =>
       Reaches(q, base, i, issuedFor[q[i].id])
  /\ asked # NoDb => Reaches(q, base, Len(q) + 1, asked)
Under(s) == s.current = "query" /\ issuedFor[s.curId] # NoDb => s.m.db = issuedFor[s.curId]
Directed(s) == Ahead(s.queue, Base(s)) /\ Under(s)

\* A switch that failed: the object is about to be closed.
Missed(s, at) == s.current = "database_set" /\ at \in {"error", "refused", "down"}

SessionInv ==
  /\ Unborn => run.at = "loop" /\ NotYet(esql[0])
  /\ ~Unborn => Open(esql[0], run.at) \/ Shut(esql[0], run.at)
  /\ (Unborn \/ HasHandler(esql[0])) /\ ~Missed(esql[0], run.at) => Directed(esql[0])
  /\ \A p \in ran : p[1] <= lastId /\ (issuedFor[p[1]] # NoDb => p[2] = issuedFor[p[1]])

SessionReady == QueryInv /\ NoTimers /\ SessionInv /\ ~Pooled

LEMMA SessionObject ==
  ASSUME SessionReady
  PROVE  /\ Conns = {0} /\ TypeOK /\ esql[0] \in EsqlRec /\ esql[0].m \in MYSAC
         /\ esql[0].queue \in Seq(Call) /\ esql[0].rtimers = 0
<1>1. Conns = {0}
  BY DEF SessionReady, Conns
<1>2. TypeOK /\ esql[0].rtimers = 0
  BY <1>1 DEF SessionReady, QueryInv, TypeInv, NoTimers
<1>3. esql[0] \in EsqlRec /\ esql[0].m \in MYSAC
  BY <1>1, <1>2, ObjectTyped
<1> QED BY <1>1, <1>2, <1>3 DEF EsqlRec

----------------------------------------------------------------------------
(* What is spent *)

\* The budget only shrinks; a dial and a disconnect take from their own.
Thrift ==
  /\ \A kind \in BudgetKinds : budget'[kind] \in 0 .. budget[kind]
  /\ IF Connect THEN budget'["connect"] < budget["connect"] ELSE budget'["connect"] = budget["connect"]
  /\ Disconnect => budget'["disconnect"] < budget["disconnect"]

LEMMA SpendShrinks ==
  ASSUME TypeOK, NEW kind \in BudgetKinds, Can(kind), Spend(kind)
  PROVE  /\ \A k \in BudgetKinds : budget'[k] \in 0 .. budget[k]
         /\ \A k \in BudgetKinds \ {kind} : budget'[k] = budget[k]
         /\ budget'[kind] < budget[kind]
<1>1. \A k \in BudgetKinds : budget'[k] = IF k = kind THEN budget[k] - 1 ELSE budget[k]
  BY DEF TypeOK, Spend
<1>2. \A k \in BudgetKinds : budget[k] \in Nat
  BY DEF TypeOK
<1> QED BY <1>1, <1>2 DEF Can

\* A step that spends something else, or nothing.
SpendsOther ==
  \/ UNCHANGED budget
  \/ \E kind \in BudgetKinds \ {"connect", "disconnect"} : Can(kind) /\ Spend(kind)

LEMMA OtherThrift == ASSUME TypeOK, SpendsOther, ~Connect, ~Disconnect PROVE Thrift
<1>1. "connect" \in BudgetKinds /\ \A k \in BudgetKinds : budget[k] \in Nat
  BY DEF TypeOK, BudgetKinds
<1>2. CASE UNCHANGED budget
  BY <1>1, <1>2 DEF Thrift
<1>3. ASSUME NEW kind \in BudgetKinds \ {"connect", "disconnect"}, Can(kind), Spend(kind) PROVE Thrift
  BY <1>1, <1>3, SpendShrinks DEF Thrift
<1> QED BY <1>2, <1>3 DEF SpendsOther

LEMMA ThriftStep == TypeOK /\ [Next]_vars => Thrift
<1> SUFFICES ASSUME TypeOK, [Next]_vars PROVE Thrift
  OBVIOUS
<1>1. /\ {"fault", "database", "timeout", "callback", "reconnect", "keep"} \subseteq BudgetKinds \ {"connect", "disconnect"}
      /\ {"connect", "disconnect"} \subseteq BudgetKinds
  BY DEF BudgetKinds
<1>2. CASE Connect
  <2>1. Can("connect") /\ Spend("connect")
    BY <1>2 DEF Connect
  <2>2. /\ \A k \in BudgetKinds : budget'[k] \in 0 .. budget[k]
        /\ \A k \in BudgetKinds \ {"connect"} : budget'[k] = budget[k]
        /\ budget'["connect"] < budget["connect"]
    BY <1>1, <2>1, SpendShrinks
  <2>3. Disconnect => budget'["disconnect"] < budget["disconnect"]
    BY <1>1, SpendShrinks DEF Disconnect
  <2> QED BY <1>2, <2>2, <2>3 DEF Thrift
<1>3. CASE Disconnect /\ ~Connect
  <2>1. Can("disconnect") /\ Spend("disconnect")
    BY <1>3 DEF Disconnect
  <2> QED BY <1>1, <1>3, <2>1, SpendShrinks DEF Thrift
<1>4. CASE ~Connect /\ ~Disconnect
  <2> SUFFICES SpendsOther
    BY <1>4, OtherThrift
  <2>0. budget' = budget => SpendsOther
    BY DEF SpendsOther
  <2>1. CASE UNCHANGED vars
    BY <2>0, <2>1 DEF vars
  <2>2. CASE Program
    <3>1. ASSUME NEW on \in BOOLEAN, TimeoutSet(on) \/ ReconnectSet(on) PROVE SpendsOther
      BY <1>1, <3>1 DEF TimeoutSet, ReconnectSet, SpendsOther
    <3>2. ASSUME NEW d \in DbNames, DatabaseSet(d) PROVE SpendsOther
      BY <1>1, <3>2 DEF DatabaseSet, SpendsOther
    <3>3. ASSUME NEW id \in Ids, QueryCallbackSet(id) PROVE SpendsOther
      BY <1>1, <3>3 DEF QueryCallbackSet, SpendsOther
    <3>4. ASSUME NEW t \in Conns, QueryStart(t) \/ QueryQueue(t) \/ QueryRefused(t) PROVE SpendsOther
      <4>1. CASE QueryStart(t) \/ QueryQueue(t)
        BY <2>0, <4>1 DEF QueryStart, QueryQueue, Issue
      <4>2. CASE QueryRefused(t)
        BY <1>1, <4>2 DEF QueryRefused, SpendsOther
      <4> QED BY <3>4, <4>1, <4>2
    <3> QED BY <1>4, <2>2, <3>1, <3>2, <3>3, <3>4 DEF Program
  <2>3. CASE ResultEvent \/ ResultUnref
    BY <1>1, <2>0, <2>3 DEF ResultEvent, ResultUnref, ResultReturned, SpendsOther
  <2>4. ASSUME NEW e \in Conns, Sources(e) PROVE SpendsOther
    BY <1>1, <2>4 DEF Sources, FdReady, RunJob, TimeoutFires, ReconnectFires, CloseAndRetry, SpendsOther
  <2>5. ASSUME NEW e \in Conns, Chain(e) PROVE SpendsOther
    <3>1. CASE Io(e) \/ Complete(e)
      BY <1>1, <3>1 DEF Io, IoWait, IoDone, IoFail, Complete, CompleteInit, CompleteQuery, CompleteOther,
                        SpendsOther
    <3>2. CASE NextCall(e)
      BY <1>1, <3>2 DEF NextCall, NextIdle, NextDatabase, NextQuery, SpendsOther
    <3>3. CASE Error(e) \/ CbReturns(e)
      BY <1>1, <3>3 DEF Error, ErrorQuery, ErrorOther, Down, CloseAndRetry, CbReturns,
                        ConnectCbReturns, QueryCbReturns, ResultReturned, SpendsOther
    <3> QED BY <2>5, <3>1, <3>2, <3>3 DEF Chain
  <2> QED BY <2>1, <2>2, <2>3, <2>4, <2>5 DEF Next
<1> QED BY <1>2, <1>3, <1>4

Spent == \A kind \in BudgetKinds : budget[kind] <= Budget[kind]

LEMMA SpentStep == TypeOK /\ Spent /\ [Next]_vars => Spent'
<1> SUFFICES ASSUME TypeOK, Spent, [Next]_vars, NEW kind \in BudgetKinds
             PROVE  budget'[kind] <= Budget[kind]
  BY DEF Spent
<1>1. budget[kind] \in Nat /\ Budget[kind] \in Nat /\ budget'[kind] \in 0 .. budget[kind]
  BY ThriftStep DEF TypeOK, Thrift
<1> QED BY <1>1 DEF Spent

\* An only session now was one before the step, which was no disconnect and no
\* second dial.
LEMMA SessionBefore ==
  ASSUME TypeOK, Spent, [Next]_vars, InSession'
  PROVE  /\ InSession /\ ~Disconnect
         /\ IF Connect THEN Unborn /\ ~(Unborn') ELSE Unborn' <=> Unborn
<1>1. /\ budget["connect"] \in Nat /\ Budget["connect"] \in Nat
      /\ budget["disconnect"] \in Nat /\ Budget["disconnect"] \in Nat
      /\ budget["connect"] <= Budget["connect"] /\ budget["disconnect"] <= Budget["disconnect"]
      /\ budget'["connect"] \in 0 .. budget["connect"]
      /\ budget'["disconnect"] \in 0 .. budget["disconnect"]
  BY ThriftStep DEF TypeOK, Thrift, Spent, BudgetKinds
<1>2. reconnect = "never"
  BY NeverBefore DEF InSession, OneSession
<1>3. budget'["connect"] + 1 >= Budget["connect"] /\ budget'["disconnect"] = Budget["disconnect"] /\ ~Pooled
  BY DEF InSession, OneSession, NeverDisconnected
<1> QED BY <1>1, <1>2, <1>3, ThriftStep DEF Thrift, InSession, OneSession, NeverDisconnected, Unborn

----------------------------------------------------------------------------
(* What a step does to the session *)

\* s before and r after a step that changes no more of the object than its
\* client, its timers and how its handler waits.
SameCall(s, r) ==
  /\ r.current = s.current /\ r.curId = s.curId /\ r.queue = s.queue
  /\ r.connected = s.connected /\ (HasHandler(r) <=> HasHandler(s))

\* A step over which the program asks for nothing and is answered nothing.
Unasked ==
  issuedFor' = issuedFor /\ asked' = asked /\ lastId' = lastId /\ ran' = ran

LEMMA SessionKept ==
  ASSUME SessionInv, Unasked, NEW r, esql'[0] = r, ~Unborn, ~(Unborn'),
         Open(r, run'.at) \/ Shut(r, run'.at),
         HasHandler(r) /\ ~Missed(r, run'.at) => Directed(r)
  PROVE  SessionInv'
<1>1. Directed(r) => Directed(esql[0])'
  BY DEF Unasked, Directed, Ahead, Under
<1> QED BY <1>1 DEF SessionInv, Unasked

\* A client that is at the same database leaves the queries directed as they were.
LEMMA SameDirected ==
  ASSUME NEW s, NEW r, SameCall(s, r), Base(r) = Base(s), s.current = "query" => r.m.db = s.m.db,
         Directed(s)
  PROVE  Directed(r)
  BY DEF Directed, Under, SameCall

\* Neither do an object's handlers, timers and job matter to them.
LEMMA SessionSame ==
  ASSUME SessionReady, Unasked, NEW r, esql'[0] = r, ~Unborn, ~(Unborn'),
         SameCall(esql[0], r), Base(r) = Base(esql[0]),
         esql[0].current = "query" => r.m.db = esql[0].m.db,
         Missed(esql[0], run.at) => Missed(r, run'.at),
         Open(esql[0], run.at) => Open(r, run'.at),
         Shut(esql[0], run.at) => Shut(r, run'.at)
  PROVE  SessionInv'
<1>1. SessionInv
  BY DEF SessionReady
<1>2. Open(r, run'.at) \/ Shut(r, run'.at)
  BY <1>1 DEF SessionInv
<1>3. HasHandler(r) /\ ~Missed(r, run'.at) => Directed(r)
  BY <1>1, SameDirected DEF SessionInv, SameCall
<1> QED BY <1>1, <1>2, <1>3, SessionKept

\* Before the dial, too, only the queue counts.
LEMMA SessionUnborn ==
  ASSUME SessionReady, Unasked, Unborn, Unborn', run'.at = "loop", NotYet(esql'[0]),
         esql'[0].queue = esql[0].queue
  PROVE  SessionInv'
<1>1. Directed(esql[0]) /\ NotYet(esql[0]) /\ SessionInv
  BY DEF SessionReady, SessionInv, Missed
<1>2. Base(esql'[0]) = Base(esql[0])
  BY <1>1 DEF Base, NotYet, Fresh
<1>3. Directed(esql[0])'
  BY <1>1, <1>2 DEF Directed, Ahead, Under, Unasked, NotYet
<1> QED BY <1>1, <1>3 DEF SessionInv, Unasked

\* An object that is closed is shut.
LEMMA ClosedShut ==
  ASSUME NEW s \in EsqlRec, NEW n PROVE Shut([Closed(s) EXCEPT !.rtimers = n], "loop")
<1> DEFINE c == Closed(s)
           r == [c EXCEPT !.rtimers = n]
<1>1. c.m = Fresh /\ c.fdh = "none" /\ c.stray = "none" /\ ~c.connected
  BY DEF Closed, EsqlRec
<1>2. r.m = c.m /\ r.fdh = c.fdh /\ r.stray = c.stray /\ r.connected = c.connected
  BY ClosedTyped DEF EsqlRec
<1> HIDE DEF c
<1>3. Shut(r, "loop")
  BY <1>1, <1>2 DEF Shut, Deaf, HasHandler, Fresh
<1> QED BY <1>3 DEF c

LEMMA SessionClosed ==
  ASSUME SessionReady, Unasked, NEW s \in EsqlRec, ~Unborn, ~(Unborn'), run'.at = "loop",
         CloseAndRetry(0, s)
  PROVE  SessionInv'
<1>1. PICK n : esql'[0] = [Closed(s) EXCEPT !.rtimers = n]
  BY SessionObject DEF CloseAndRetry, TypeOK
<1>2. Shut(esql'[0], "loop")
  BY <1>1, ClosedShut
<1>3. ~HasHandler(esql'[0])
  BY <1>2 DEF Shut
<1> QED BY <1>2, <1>3, SessionKept DEF SessionReady

----------------------------------------------------------------------------
(* The program's calls *)

LEMMA ConnectFresh ==
  /\ Setup(Fresh) = Fresh
  /\ ConnectDone(Fresh) = {} /\ ConnectFailing(Fresh) = {SetError(Fresh)}
  /\ \A m \in ConnectWaiting(Fresh) : m.proto = "auth" /\ m.db = NoDb
<1>1. Setup(Fresh) = Fresh
  BY DEF Setup, Fresh
<1>2. Fresh.proto = "start" /\ ~Talking(Fresh) /\ ~Doomed(Fresh)
  BY DEF Fresh, Talking, Doomed, Exchange
<1>3. ConnectDone(Fresh) = {} /\ ConnectFailing(Fresh) = {SetError(Fresh)}
  BY <1>2 DEF ConnectDone, ConnectFailing, Failing
<1>4. ConnectWaiting(Fresh) = {[Fresh EXCEPT !.proto = "auth", !.sock = "live"]}
  BY <1>2 DEF ConnectWaiting, Waiting, Exchange
<1> QED BY <1>1, <1>3, <1>4 DEF Fresh

LEMMA SessionConnect == SessionReady /\ Connect /\ Unborn /\ ~(Unborn') => SessionInv'
<1> SUFFICES ASSUME SessionReady, Connect, Unborn, ~(Unborn') PROVE SessionInv'
  OBVIOUS
<1> DEFINE s == esql[0]
           r == esql'[0]
<1>1. /\ SessionInv /\ s \in EsqlRec /\ NotYet(s) /\ run'.at = "loop" /\ Unasked
      /\ Directed(s) /\ s.queue \in Seq(Call)
  BY SessionObject DEF SessionReady, SessionInv, Missed, NotYet, Connect, Unasked, history, outcomes
<1>2. [s EXCEPT !.m = Setup(@)] = s /\ s.m = Fresh
  BY <1>1, ConnectFresh DEF NotYet, EsqlRec
<1>3. r \in Dialled(s) \cup NotDialled(s)
  BY <1>1, <1>2, SessionObject DEF Connect, NotYet
<1>4. CASE r \in Dialled(s)
  <2>1. PICK m \in ConnectWaiting(Fresh) :
          r = [WithHandler([s EXCEPT !.m = m], "armed") EXCEPT !.current = "init"]
    BY <1>2, <1>4, ConnectFresh DEF Dialled
  <2>2. /\ r.m = m /\ r.current = "init" /\ r.queue = s.queue /\ r.fdh = "armed"
    BY <1>1, <2>1 DEF WithHandler, EsqlRec, NotYet, HasHandler
  <2>3. m.proto = "auth" /\ m.db = NoDb
    BY ConnectFresh
  <2>4. Open(r, "loop")
    BY <2>2, <2>3 DEF Open, HasHandler
  <2>5. Base(r) = Base(s)
    BY <1>2, <2>2, <2>3 DEF Base, Fresh
  <2>6. Directed(r)
    BY <1>1, <2>2, <2>5 DEF Directed, Under
  <2> QED BY <1>1, <2>4, <2>6 DEF SessionInv, Unasked, Directed, Ahead, Under
<1>5. CASE r \in NotDialled(s)
  <2>1. r = [s EXCEPT !.m = SetError(Fresh)]
    BY <1>2, <1>5, ConnectFresh DEF NotDialled
  <2>2. r.connected = s.connected /\ r.fdh = s.fdh /\ r.stray = s.stray /\ r.job = s.job
    BY <1>1, <2>1 DEF EsqlRec
  <2>3. Shut(r, "loop") /\ ~HasHandler(r)
    BY <1>1, <2>2 DEF Shut, NotYet, HasHandler
  <2> QED BY <1>1, <2>3 DEF SessionInv, Unasked
<1> QED BY <1>3, <1>4, <1>5

\* A switch, at once or behind the queue, is what the next query will find.
LEMMA SessionDatabaseSet ==
  \A d \in DbNames : SessionReady /\ DatabaseSet(d) /\ (Unborn' <=> Unborn) => SessionInv'
<1> SUFFICES ASSUME NEW d \in DbNames, SessionReady, DatabaseSet(d), Unborn' <=> Unborn PROVE SessionInv'
  OBVIOUS
<1> DEFINE s == esql[0]
           r == esql'[0]
           c == [fn |-> "database_set", id |-> 0, db |-> d]
<1>1. /\ SessionInv /\ s \in EsqlRec /\ s.m \in MYSAC /\ s.queue \in Seq(Call) /\ 0 \in Conns
      /\ run' = run /\ asked' = d /\ issuedFor' = issuedFor /\ lastId' = lastId /\ ran' = ran
      /\ run.at \in ProgramPoints
  BY SessionObject DEF SessionReady, DatabaseSet, outcomes, ProgramTurn
<1>2. r = DatabaseSwitched(s, d)
  BY <1>1 DEF DatabaseSet
<1>3. CASE s.current = "none" /\ s.connected
  <2>1. Open(s, run.at) /\ ~Unborn
    BY <1>1, <1>3 DEF SessionInv, NotYet, Shut
  <2>2. r = [s EXCEPT !.m = SetDatabase(@, d), !.current = "database_set"]
    BY <1>2, <1>3 DEF DatabaseSwitched
  <2>3. /\ r.m = SetDatabase(s.m, d) /\ r.current = "database_set" /\ r.queue = s.queue
        /\ r.connected = s.connected /\ r.fdh = s.fdh /\ r.stray = s.stray
    BY <1>1, <2>2 DEF EsqlRec
  <2>4. r.m.proto = "db" /\ r.m.ask = d
    BY <1>1, <2>3 DEF SetDatabase, MYSAC
  <2>5. Open(r, run.at)
    BY <1>1, <1>3, <2>1, <2>3, <2>4 DEF Open, HasHandler, ProgramPoints
  <2>6. Base(r) = d /\ r.queue = <<>>
    BY <1>3, <2>1, <2>3, <2>4 DEF Base, Open
  <2>7. Directed(esql[0])'
    BY <1>1, <2>3, <2>6 DEF Directed, Ahead, Under, Reaches
  <2> QED BY <1>1, <2>1, <2>5, <2>7 DEF SessionInv
<1>4. CASE ~(s.current = "none" /\ s.connected)
  <2>1. r = [s EXCEPT !.queue = Append(@, c)] /\ c \in Call
    BY <1>2, <1>4, CallTyped DEF DatabaseSwitched, Enqueued
  <2>2. /\ r.queue = Append(s.queue, c) /\ r.m = s.m /\ r.current = s.current /\ r.curId = s.curId
        /\ r.connected = s.connected /\ r.fdh = s.fdh /\ r.stray = s.stray /\ r.job = s.job
    BY <1>1, <2>1 DEF EsqlRec
  <2>3. /\ NotYet(s) => NotYet(r)
        /\ Open(s, run.at) => Open(r, run.at)
        /\ Shut(s, run.at) => Shut(r, run.at)
        /\ HasHandler(r) <=> HasHandler(s)
        /\ Missed(r, run.at) <=> Missed(s, run.at)
    BY <1>4, <2>2 DEF NotYet, Open, Shut, HasHandler, Missed
  <2>4. ASSUME Directed(s) PROVE Directed(esql[0])'
    <3>1. /\ Len(s.queue) \in Nat /\ DOMAIN s.queue = 1 .. Len(s.queue)
          /\ DOMAIN r.queue = 1 .. (Len(s.queue) + 1) /\ Len(r.queue) = Len(s.queue) + 1
          /\ \A i \in DOMAIN s.queue : r.queue[i] = s.queue[i]
          /\ r.queue[Len(s.queue) + 1] = c
      BY <1>1, <2>1, <2>2
    <3>2. ASSUME NEW i \in DOMAIN r.queue, r.queue[i].fn = "query", issuedFor[r.queue[i].id] # NoDb
          PROVE  Reaches(r.queue, Base(s), i, issuedFor[r.queue[i].id])
      <4>1. i \in DOMAIN s.queue /\ r.queue[i] = s.queue[i] /\ i \in 1 .. (Len(s.queue) + 1)
        BY <3>1, <3>2
      <4>2. Reaches(s.queue, Base(s), i, issuedFor[r.queue[i].id])
        BY <2>4, <3>2, <4>1 DEF Directed, Ahead
      <4>3. Reaches(Append(s.queue, c), Base(s), i, issuedFor[r.queue[i].id])
        BY <1>1, <2>1, <4>1, <4>2, ReachesAppend
      <4> QED BY <2>2, <4>3
    <3>3. Reaches(r.queue, Base(s), Len(r.queue) + 1, d)
      <4>1. Reaches(Append(s.queue, c), Base(s), Len(s.queue) + 2, c.db)
        BY <1>1, <2>1, ReachesPast
      <4>2. Len(r.queue) + 1 = Len(s.queue) + 2
        BY <3>1
      <4> QED BY <2>2, <4>1, <4>2
    <3>4. Base(r) = Base(s) /\ (r.current = "query" => s.current = "query")
      BY <2>2 DEF Base
    <3> QED BY <1>1, <2>2, <2>4, <3>2, <3>3, <3>4 DEF Directed, Ahead, Under
  <2> QED BY <1>1, <2>3, <2>4 DEF SessionInv
<1> QED BY <1>3, <1>4

LEMMA SessionTimeoutSet ==
  \A on \in BOOLEAN : SessionReady /\ TimeoutSet(on) /\ (Unborn' <=> Unborn) => SessionInv'
<1> SUFFICES ASSUME NEW on \in BOOLEAN, SessionReady, TimeoutSet(on), Unborn' <=> Unborn PROVE SessionInv'
  OBVIOUS
<1> DEFINE s == esql[0]
           r == [s EXCEPT !.timeout = on]
<1>1. s \in EsqlRec /\ esql'[0] = r /\ run' = run /\ Unasked /\ SessionInv
  BY SessionObject DEF TimeoutSet, SessionReady, Unasked, history, outcomes
<1>2. r.m = s.m /\ r.current = s.current /\ r.curId = s.curId /\ r.queue = s.queue
      /\ r.connected = s.connected /\ r.fdh = s.fdh /\ r.stray = s.stray /\ r.job = s.job
  BY <1>1 DEF EsqlRec
<1> HIDE DEF r
<1>3. CASE Unborn
  BY <1>1, <1>2, <1>3, SessionUnborn DEF SessionInv, NotYet, HasHandler
<1>4. CASE ~Unborn
  BY <1>1, <1>2, <1>4, SessionSame DEF SameCall, Base, Missed, Open, Shut, HasHandler
<1> QED BY <1>3, <1>4

\* A query is accepted on an object that is connected.
LEMMA QueryableOpen ==
  ASSUME SessionReady, Queryable(0)
  PROVE  /\ Open(esql[0], run.at) /\ ~Unborn /\ run.at \in ProgramPoints
         /\ Missed(esql[0], run.at) \/ Directed(esql[0])
  BY DEF Queryable, SessionReady, SessionInv, NotYet, Shut, Open, ProgramTurn

\* The identifier just given is new: what was issued before is unchanged.
LEMMA IssuedNew ==
  ASSUME SessionReady, NEW r, Issue(0, r)
  PROVE  /\ lastId \in Nat /\ lastId + 1 \in Ids /\ esql'[0] = r
         /\ issuedFor'[lastId + 1] = asked
         /\ \A id \in Ids : id <= lastId => issuedFor'[id] = issuedFor[id]
         /\ \A p \in ran : p \in ran' /\ p[1] \in Ids /\ p[1] <= lastId
         /\ run' = run /\ asked' = asked /\ ran' = ran /\ lastId' = lastId + 1
<1>1. TypeOK /\ Conns = {0} /\ SessionInv
  BY SessionObject DEF SessionReady
<1>2. lastId \in Nat /\ lastId + 1 \in Ids
  BY <1>1 DEF Issue, TypeOK, Ids
<1> QED BY <1>1, <1>2 DEF Issue, TypeOK, SessionInv, Ids

\* The identifiers an object knows are given ones.
LEMMA KnownIds ==
  ASSUME SessionReady
  PROVE  /\ \A i \in DOMAIN esql[0].queue : esql[0].queue[i].fn = "query" =>
              esql[0].queue[i].id \in Ids /\ esql[0].queue[i].id <= lastId
         /\ esql[0].current = "query" => esql[0].curId \in Ids /\ esql[0].curId <= lastId
<1>1. esql[0].queue \in Seq(Call) /\ 0 \in Conns /\ QueryInv
  BY SessionObject DEF SessionReady
<1>2. ASSUME NEW i \in DOMAIN esql[0].queue, esql[0].queue[i].fn = "query"
      PROVE  esql[0].queue[i].id \in Ids /\ esql[0].queue[i].id <= lastId
  <2>1. esql[0].queue[i].id \in Ids
    BY <1>1, <1>2 DEF Call
  <2>2. esql[0].queue[i].id \in Waiters(0)
    BY <1>2, <2>1 DEF Waiters, IdsOf
  <2> QED BY <1>1, <2>1, <2>2 DEF QueryInv, Placed
<1>3. esql[0].current = "query" => esql[0].curId \in Ids /\ esql[0].curId <= lastId
  BY <1>1 DEF QueryInv, TypeInv, QueryHasId, Placed, Runs
<1> QED BY <1>2, <1>3

LEMMA RanKept ==
  ASSUME SessionReady, NEW r, Issue(0, r)
  PROVE  \A p \in ran' : p[1] <= lastId' /\ (issuedFor'[p[1]] # NoDb => p[2] = issuedFor'[p[1]])
<1>1. SessionInv /\ ran' = ran /\ lastId' = lastId + 1 /\ lastId \in Nat /\ Ids \subseteq Nat
  BY IssuedNew, ConstantsTyped DEF SessionReady
<1>2. ASSUME NEW p \in ran PROVE p[1] <= lastId + 1 /\ (issuedFor'[p[1]] # NoDb => p[2] = issuedFor'[p[1]])
  <2>1. p[1] \in Ids /\ p[1] <= lastId /\ issuedFor'[p[1]] = issuedFor[p[1]]
    BY IssuedNew
  <2>2. issuedFor[p[1]] # NoDb => p[2] = issuedFor[p[1]]
    BY <1>1 DEF SessionInv
  <2>3. \A n \in Nat : n <= lastId => n <= lastId + 1
    BY <1>1
  <2> QED BY <1>1, <2>1, <2>2, <2>3
<1> QED BY <1>1, <1>2

LEMMA SessionQueryStart ==
  SessionReady /\ QueryStart(0) /\ (Unborn' <=> Unborn) => SessionInv'
<1> SUFFICES ASSUME SessionReady, QueryStart(0), Unborn' <=> Unborn PROVE SessionInv'
  OBVIOUS
<1> DEFINE s == esql[0]
           id == lastId + 1
           r == Started(s, id)
<1>1. /\ SessionInv /\ s \in EsqlRec /\ s.m \in MYSAC /\ s.current = "none" /\ s.connected
      /\ Issue(0, r) /\ Queryable(0)
  BY SessionObject DEF SessionReady, QueryStart, Queryable
<1>2. Open(s, run.at) /\ ~Unborn /\ Directed(s) /\ run.at \in ProgramPoints
  BY <1>1, QueryableOpen DEF Missed
<1>3. /\ r.m = SetQuery(s.m) /\ r.current = "query" /\ r.curId = id /\ r.queue = s.queue
      /\ r.connected = s.connected /\ r.fdh = s.fdh /\ r.stray = s.stray
  BY <1>1 DEF Started, EsqlRec
<1>4. r.m.proto = "query" /\ r.m.db = s.m.db
  BY <1>1, <1>3 DEF SetQuery, MYSAC
<1> HIDE DEF r
<1>5. Open(r, run.at)
  BY <1>1, <1>2, <1>3, <1>4 DEF Open, HasHandler, ProgramPoints
<1>6. s.queue = <<>> /\ Base(s) = s.m.db /\ Base(r) = s.m.db
  BY <1>1, <1>2, <1>4 DEF Open, Base
<1>7. asked # NoDb => asked = s.m.db
  BY <1>2, <1>6 DEF Directed, Ahead, Reaches
<1>8. Directed(esql[0])'
  BY <1>1, <1>3, <1>4, <1>6, <1>7, IssuedNew DEF Directed, Ahead, Under, Reaches
<1> QED BY <1>1, <1>2, <1>5, <1>8, IssuedNew, RanKept DEF SessionInv

LEMMA SessionQueryQueue ==
  SessionReady /\ QueryQueue(0) /\ (Unborn' <=> Unborn) => SessionInv'
<1> SUFFICES ASSUME SessionReady, QueryQueue(0), Unborn' <=> Unborn PROVE SessionInv'
  OBVIOUS
<1> DEFINE s == esql[0]
           id == lastId + 1
           c == [fn |-> "query", id |-> id, db |-> NoDb]
           r == Enqueued(s, c)
<1>1. /\ SessionInv /\ s \in EsqlRec /\ s.queue \in Seq(Call) /\ s.current # "none"
      /\ Issue(0, r) /\ Queryable(0)
  BY SessionObject DEF SessionReady, QueryQueue, Queryable
<1>2. Open(s, run.at) /\ ~Unborn /\ (Missed(s, run.at) \/ Directed(s))
  BY <1>1, QueryableOpen
<1>3. c \in Call /\ id \in Ids /\ esql'[0] = r
  BY <1>1, IssuedNew, CallTyped
<1>4. /\ r.queue = Append(s.queue, c) /\ r.m = s.m /\ r.current = s.current /\ r.curId = s.curId
      /\ r.connected = s.connected /\ r.fdh = s.fdh /\ r.stray = s.stray
  BY <1>1 DEF Enqueued, EsqlRec
<1> HIDE DEF r
<1>5. Open(r, run.at) /\ Base(r) = Base(s) /\ (Missed(r, run.at) <=> Missed(s, run.at))
  BY <1>1, <1>2, <1>4 DEF Open, HasHandler, Base, Missed
<1>6. ASSUME Directed(s) PROVE Directed(esql[0])'
  <2>1. /\ Len(s.queue) \in Nat /\ DOMAIN s.queue = 1 .. Len(s.queue)
        /\ DOMAIN r.queue = 1 .. (Len(s.queue) + 1) /\ Len(r.queue) = Len(s.queue) + 1
        /\ \A i \in DOMAIN s.queue : r.queue[i] = s.queue[i]
        /\ r.queue[Len(s.queue) + 1] = c
    BY <1>1, <1>3, <1>4
  <2>2. ASSUME NEW i \in DOMAIN r.queue, r.queue[i].fn = "query", issuedFor'[r.queue[i].id] # NoDb
        PROVE  Reaches(r.queue, Base(s), i, issuedFor'[r.queue[i].id])
    <3>1. CASE i = Len(s.queue) + 1
      <4>1. issuedFor'[r.queue[i].id] = asked /\ i \in 1 .. (Len(s.queue) + 1)
        BY <1>1, <2>1, <3>1, IssuedNew
      <4>2. Reaches(s.queue, Base(s), i, asked)
        BY <1>6, <2>2, <3>1, <4>1 DEF Directed, Ahead
      <4> QED BY <1>1, <1>3, <1>4, <4>1, <4>2, ReachesAppend
    <3>2. CASE i # Len(s.queue) + 1
      <4>1. i \in DOMAIN s.queue /\ r.queue[i] = s.queue[i] /\ i \in 1 .. (Len(s.queue) + 1)
        BY <2>1, <3>2
      <4>2. issuedFor'[r.queue[i].id] = issuedFor[s.queue[i].id]
        BY <1>1, <2>2, <4>1, IssuedNew, KnownIds
      <4>3. Reaches(s.queue, Base(s), i, issuedFor[s.queue[i].id])
        BY <1>6, <2>2, <4>1, <4>2 DEF Directed, Ahead
      <4> QED BY <1>1, <1>3, <1>4, <4>1, <4>2, <4>3, ReachesAppend
    <3> QED BY <3>1, <3>2
  <2>3. asked # NoDb => Reaches(r.queue, Base(s), Len(r.queue) + 1, asked)
    <3>1. Len(r.queue) + 1 = Len(s.queue) + 2
      BY <2>1
    <3> QED BY <1>1, <1>3, <1>4, <1>6, <3>1, ReachesPast DEF Directed, Ahead
  <2>4. Ahead(esql[0].queue, Base(esql[0]))'
    BY <1>1, <1>3, <1>5, <2>2, <2>3, IssuedNew DEF Ahead
  <2>5. s.current = "query" => issuedFor'[s.curId] = issuedFor[s.curId]
    BY <1>1, IssuedNew, KnownIds
  <2>6. Under(esql[0])'
    BY <1>3, <1>4, <1>6, <2>5 DEF Directed, Under
  <2> QED BY <2>4, <2>6 DEF Directed
<1> QED BY <1>1, <1>2, <1>3, <1>5, <1>6, IssuedNew, RanKept DEF SessionInv

LEMMA SessionQueryRefused ==
  SessionReady /\ QueryRefused(0) /\ (Unborn' <=> Unborn) => SessionInv'
<1> SUFFICES ASSUME SessionReady, QueryRefused(0), Unborn' <=> Unborn PROVE SessionInv'
  OBVIOUS
<1> DEFINE s == esql[0]
<1>1. /\ SessionInv /\ s \in EsqlRec /\ s.m \in MYSAC /\ s.current = "none" /\ run' = run /\ Unasked
      /\ Queryable(0)
  BY SessionObject DEF SessionReady, QueryRefused, Unasked, history, outcomes
<1>2. Open(s, run.at) /\ ~Unborn
  BY <1>1, QueryableOpen
<1>3. PICK m \in {SetQuery(s.m), QueryTooLong(s.m)} : esql'[0] = [s EXCEPT !.m = m]
  BY SessionObject DEF QueryRefused, TypeOK
<1>4. m.db = s.m.db /\ (m.proto = s.m.proto \/ m.proto = "query") /\ s.m.proto # "db"
  BY <1>1, <1>2, <1>3 DEF SetQuery, QueryTooLong, SetError, MYSAC, Open
<1> DEFINE r == [s EXCEPT !.m = m]
<1>5. /\ r.m = m /\ r.current = s.current /\ r.curId = s.curId /\ r.queue = s.queue
      /\ r.connected = s.connected /\ r.fdh = s.fdh /\ r.stray = s.stray
  BY <1>1 DEF EsqlRec
<1> HIDE DEF r
<1>6. SameCall(s, r) /\ Base(r) = Base(s) /\ Open(r, run.at) /\ ~Shut(s, run.at) /\ ~Missed(s, run.at)
  BY <1>1, <1>2, <1>4, <1>5 DEF SameCall, HasHandler, Base, Open, Shut, Missed
<1> QED BY <1>1, <1>2, <1>3, <1>4, <1>5, <1>6, SessionSame DEF r

LEMMA SessionProgram ==
  SessionReady /\ Program /\ ~Disconnect /\ InSession'
    /\ (IF Connect THEN Unborn /\ ~(Unborn') ELSE Unborn' <=> Unborn) => SessionInv'
<1> SUFFICES ASSUME SessionReady, Program, ~Disconnect, InSession',
                    IF Connect THEN Unborn /\ ~(Unborn') ELSE Unborn' <=> Unborn
             PROVE  SessionInv'
  OBVIOUS
<1>1. CASE Connect
  BY <1>1, SessionConnect
<1>2. ASSUME NEW on \in BOOLEAN, ReconnectSet(on) PROVE FALSE
  BY <1>2 DEF ReconnectSet, InSession, OneSession
<1>3. ASSUME NEW id \in Ids, QueryCallbackSet(id), ~Connect PROVE SessionInv'
  BY <1>3 DEF QueryCallbackSet, history, outcomes, SessionReady, SessionInv, Directed, Ahead, Under
<1>4. ASSUME NEW t \in Conns, QueryStart(t) \/ QueryQueue(t) \/ QueryRefused(t), ~Connect PROVE SessionInv'
  BY <1>4, SessionObject, SessionQueryStart, SessionQueryQueue, SessionQueryRefused
<1> QED BY <1>1, <1>2, <1>3, <1>4, SessionDatabaseSet, SessionTimeoutSet DEF Program

----------------------------------------------------------------------------
(* The main loop's sources *)

\* A handler that stops or starts waiting for its descriptor is still there.
LEMMA ActiveSameCall ==
  ASSUME NEW s \in EsqlRec, NEW h \in {"fdh", "stray"}, NEW state \in {"off", "armed"}
  PROVE  /\ SameCall(s, Active(s, h, state)) /\ Active(s, h, state).m = s.m
         /\ Active(s, h, state).job = s.job
<1>1. CASE h = "fdh"
  BY <1>1 DEF SameCall, HasHandler, Active, EsqlRec
<1>2. CASE h = "stray"
  BY <1>2 DEF SameCall, HasHandler, Active, EsqlRec
<1> QED BY <1>1, <1>2

LEMMA SessionFdReady == SessionReady /\ FdReady(0) /\ (Unborn' <=> Unborn) => SessionInv'
<1> SUFFICES ASSUME SessionReady, FdReady(0), Unborn' <=> Unborn PROVE SessionInv'
  OBVIOUS
<1> DEFINE s == esql[0]
<1>1. SessionInv /\ s \in EsqlRec /\ Unasked /\ run.at = "loop" /\ run'.at = "io" /\ 0 \in Conns
  BY SessionObject DEF SessionReady, FdReady, LoopTurn, Unasked, history, outcomes
<1>2. PICK h \in {"fdh", "stray"} : HandlerOf(s, h) # "none" /\ esql' = [esql EXCEPT ![0] = Active(@, h, "off")]
  BY DEF FdReady
<1> DEFINE r == Active(s, h, "off")
<1>3. esql'[0] = r /\ HasHandler(s)
  BY <1>1, <1>2, SessionObject DEF TypeOK, HasHandler, HandlerOf
<1>4. ~Unborn /\ ~Shut(s, run.at) /\ ~Missed(s, run.at)
  BY <1>1, <1>3 DEF SessionInv, NotYet, Shut, Missed
<1>5. SameCall(s, r) /\ r.m = s.m
  BY <1>1, ActiveSameCall
<1> HIDE DEF r
<1>6. Open(s, run.at) => Open(r, run'.at)
  BY <1>1, <1>5 DEF Open, SameCall
<1> QED BY <1>1, <1>3, <1>4, <1>5, <1>6, SessionSame DEF Base

LEMMA SessionRunJob == SessionReady /\ RunJob(0) /\ (Unborn' <=> Unborn) => SessionInv'
<1> SUFFICES ASSUME SessionReady, RunJob(0), Unborn' <=> Unborn PROVE SessionInv'
  OBVIOUS
<1> DEFINE s == esql[0]
           t == [s EXCEPT !.job = FALSE]
           r == Active(t, "fdh", "off")
<1>1. /\ SessionInv /\ s \in EsqlRec /\ Unasked /\ run.at = "loop" /\ run'.at = "io" /\ 0 \in Conns
      /\ s.job
  BY SessionObject DEF SessionReady, RunJob, LoopTurn, Unasked, history, outcomes
<1>2. esql'[0] = r
  BY <1>1, SessionObject DEF RunJob, TypeOK
<1>3. ~Unborn /\ ~Missed(s, run.at)
  BY <1>1 DEF SessionInv, NotYet, Missed
<1>4. t \in EsqlRec /\ SameCall(s, t) /\ t.m = s.m /\ ~t.job
  BY <1>1 DEF EsqlRec, SameCall, HasHandler
<1> HIDE DEF t
<1>5. SameCall(t, r) /\ r.m = t.m /\ r.job = t.job
  BY <1>4, ActiveSameCall
<1> HIDE DEF r
<1>6. SameCall(s, r) /\ r.m = s.m /\ ~r.job
  BY <1>4, <1>5 DEF SameCall
<1>7. Open(s, run.at) => Open(r, run'.at)
  BY <1>1, <1>6 DEF Open, SameCall
<1>8. Shut(s, run.at) => Shut(r, run'.at)
  BY <1>1, <1>6 DEF Shut, SameCall
<1> QED BY <1>1, <1>2, <1>3, <1>6, <1>7, <1>8, SessionSame DEF Base

LEMMA SessionTimeoutFires == SessionReady /\ TimeoutFires(0) /\ (Unborn' <=> Unborn) => SessionInv'
<1> SUFFICES ASSUME SessionReady, TimeoutFires(0), Unborn' <=> Unborn PROVE SessionInv'
  OBVIOUS
<1> DEFINE s == esql[0]
           t == [s EXCEPT !.timeout = FALSE]
<1>1. /\ SessionInv /\ s \in EsqlRec /\ t \in EsqlRec /\ Unasked /\ run'.at = "loop" /\ 0 \in Conns
      /\ CloseAndRetry(0, t)
  BY SessionObject DEF SessionReady, TimeoutFires, LoopTurn, CloseAndRetry, Unasked, outcomes, EsqlRec
<1>2. CASE ~Unborn
  BY <1>1, <1>2, SessionClosed
<1>3. CASE Unborn
  <2>1. /\ t.m = s.m /\ t.current = s.current /\ t.queue = s.queue /\ t.job = s.job
    BY <1>1 DEF EsqlRec
  <2> HIDE DEF t
  <2> DEFINE c == Closed(t)
  <2>2. /\ c.m = Fresh /\ c.current = t.current /\ ~c.connected /\ c.fdh = "none" /\ c.stray = "none"
        /\ c.job = t.job /\ c.queue = t.queue
    BY <1>1 DEF Closed, EsqlRec
  <2> HIDE DEF c
  <2>6. c \in EsqlRec
    BY <1>1, ClosedTyped DEF c
  <2>3. PICK n : esql'[0] = [c EXCEPT !.rtimers = n]
    BY <1>1, SessionObject DEF CloseAndRetry, TypeOK, c
  <2>4. /\ esql'[0].m = Fresh /\ esql'[0].current = t.current /\ ~esql'[0].connected
        /\ esql'[0].fdh = "none" /\ esql'[0].stray = "none" /\ esql'[0].job = t.job
        /\ esql'[0].queue = t.queue
    BY <2>2, <2>3, <2>6 DEF EsqlRec
  <2>5. NotYet(esql'[0])
    BY <1>1, <1>3, <2>1, <2>4 DEF SessionInv, NotYet, HasHandler
  <2> QED BY <1>1, <1>3, <2>1, <2>4, <2>5, SessionUnborn
<1> QED BY <1>2, <1>3

LEMMA ErrorForgotten ==
  ASSUME SessionReady, FreesError \/ esql' = esql
  PROVE  LET s == esql[0]
             r == esql'[0]
         IN /\ SameCall(s, r) /\ r.job = s.job
            /\ r.m.proto = s.m.proto /\ r.m.sock = s.m.sock /\ r.m.ask = s.m.ask /\ r.m.db = s.m.db
            /\ s.m = Fresh => r.m = Fresh
<1> DEFINE s == esql[0]
           n == ClearError(s.m)
           r == [s EXCEPT !.m = n]
<1>0. CASE esql' = esql
  BY <1>0 DEF SameCall
<1> SUFFICES ASSUME FreesError
             PROVE  /\ SameCall(s, esql'[0]) /\ esql'[0].job = s.job
                    /\ esql'[0].m.proto = s.m.proto /\ esql'[0].m.sock = s.m.sock
                    /\ esql'[0].m.ask = s.m.ask /\ esql'[0].m.db = s.m.db
                    /\ s.m = Fresh => esql'[0].m = Fresh
  BY <1>0
<1>1. s \in EsqlRec /\ s.m \in MYSAC /\ esql'[0] = r
  BY SessionObject DEF TypeOK, FreesError
<1>2. /\ n.proto = s.m.proto /\ n.sock = s.m.sock /\ n.ask = s.m.ask /\ n.db = s.m.db
  BY <1>1 DEF ClearError, MYSAC
<1>3. s.m = Fresh => n = Fresh
  <2>1. ~s.m.err => n = s.m
    BY <1>1 DEF ClearError, MYSAC
  <2> QED BY <2>1 DEF Fresh
<1> HIDE DEF n
<1>4. SameCall(s, r) /\ r.job = s.job /\ r.m = n
  BY <1>1 DEF EsqlRec, SameCall, HasHandler
<1> QED BY <1>1, <1>2, <1>3, <1>4

LEMMA SessionResultEvent ==
  SessionReady /\ (ResultEvent \/ ResultUnref) /\ (Unborn' <=> Unborn) => SessionInv'
<1> SUFFICES ASSUME SessionReady, ResultEvent \/ ResultUnref, Unborn' <=> Unborn PROVE SessionInv'
  OBVIOUS
<1> DEFINE s == esql[0]
           r == esql'[0]
<1>1. SessionInv /\ Unasked /\ run' = run /\ run.at \in ProgramPoints
  BY DEF SessionReady, ResultEvent, ResultUnref, LoopTurn, ProgramTurn, ProgramPoints, Unasked,
         history, outcomes
<1>2. /\ SameCall(s, r) /\ r.job = s.job
      /\ r.m.proto = s.m.proto /\ r.m.sock = s.m.sock /\ r.m.ask = s.m.ask /\ r.m.db = s.m.db
      /\ s.m = Fresh => r.m = Fresh
  BY ErrorForgotten DEF ResultEvent, ResultUnref, ResultReturned
<1> HIDE DEF r
<1>3. /\ Open(s, run.at) => Open(r, run'.at)
      /\ Shut(s, run.at) => Shut(r, run'.at)
      /\ Missed(s, run.at) => Missed(r, run'.at)
      /\ NotYet(s) => NotYet(r)
      /\ Base(r) = Base(s)
  BY <1>1, <1>2 DEF Open, Shut, Deaf, Missed, NotYet, SameCall, Base
<1>4. CASE Unborn
  BY <1>1, <1>2, <1>3, <1>4, SessionUnborn DEF SessionInv, SameCall, r
<1>5. CASE ~Unborn
  BY <1>1, <1>2, <1>3, <1>5, SessionSame DEF r
<1> QED BY <1>4, <1>5

LEMMA SessionSources ==
  \A e \in Conns : SessionReady /\ Sources(e) /\ (Unborn' <=> Unborn) => SessionInv'
<1> SUFFICES ASSUME SessionReady, Sources(0), Unborn' <=> Unborn PROVE SessionInv'
  BY SessionObject
<1>1. ~ReconnectFires(0)
  BY SessionObject DEF ReconnectFires
<1> QED BY <1>1, SessionFdReady, SessionRunJob, SessionTimeoutFires DEF Sources

----------------------------------------------------------------------------
(* The chain of handlers *)

\* What a call of io does to the database, to a client that is deaf, and to
\* a switch.
LEMMA IoDatabase ==
  ASSUME NEW m \in MYSAC
  PROVE  /\ \A n \in Waiting(m) : /\ n.db = m.db /\ n.ask = m.ask
                                  /\ (m.proto = "db" <=> n.proto = "db")
         /\ \A n \in Done(m) : /\ n.proto # "db"
                               /\ n.db = IF m.proto = "db" THEN m.ask ELSE m.db
         /\ \A n \in Failing(m) : n.proto # "db" /\ n.db = m.db
         /\ Deaf(m) => Done(m) = {} /\ \A n \in Failing(m) : Deaf(n)
<1>1. \A n \in {m, ClearError(m), [m EXCEPT !.proto = "auth", !.sock = "live"]} :
        n.db = m.db /\ n.ask = m.ask /\ n.proto \in {m.proto, "auth"}
  BY DEF ClearError, MYSAC
<1>2. ASSUME NEW n \in Waiting(m)
      PROVE  n.db = m.db /\ n.ask = m.ask /\ (m.proto = "db" <=> n.proto = "db")
  <2>1. CASE m.proto = "start"
    <3>1. n = [m EXCEPT !.proto = "auth", !.sock = "live"]
      BY <2>1 DEF Waiting, Talking, Exchange
    <3>2. n.proto = "auth"
      BY <3>1 DEF MYSAC
    <3> QED BY <1>1, <2>1, <3>1, <3>2
  <2>2. CASE m.proto # "start"
    <3>1. n \in {m, ClearError(m)}
      BY <2>2 DEF Waiting, Talking
    <3>2. ClearError(m).proto = m.proto
      BY DEF ClearError, MYSAC
    <3> QED BY <1>1, <3>1, <3>2
  <2> QED BY <2>1, <2>2
<1>3. ASSUME NEW n \in Done(m)
      PROVE  n.proto # "db" /\ n.db = IF m.proto = "db" THEN m.ask ELSE m.db
  <2>1. n.proto # "db"
    BY <1>3, DoneProto
  <2>2. CASE Talking(m)
    <3>1. Ended(m).db = IF m.proto = "db" THEN m.ask ELSE m.db
      BY DEF Ended, MYSAC
    <3>2. Ended(m) \in MYSAC
      BY DEF Ended, MYSAC, Protos, NoDb
    <3>3. ClearError(Ended(m)).db = Ended(m).db
      BY <3>2 DEF ClearError, MYSAC
    <3> QED BY <2>1, <2>2, <3>1, <3>3 DEF Done
  <2>3. CASE ~Talking(m)
    BY <2>1, <2>3 DEF Done
  <2> QED BY <2>2, <2>3
<1>4. ASSUME NEW s \in Sockets, NEW n \in Breaking(m, s)
      PROVE  n.proto = "failed" /\ n.sock = s /\ n.db = m.db
  <2>1. Broken(m, s) \in MYSAC
    BY DEF Broken, MYSAC, Protos
  <2>2. /\ Broken(m, s).proto = "failed" /\ Broken(m, s).sock = s /\ Broken(m, s).db = m.db
    BY DEF Broken, MYSAC
  <2>3. \A b \in MYSAC : /\ SetError(b).proto = b.proto /\ SetError(b).sock = b.sock
                         /\ SetError(b).db = b.db
    BY DEF SetError, MYSAC
  <2> QED BY <1>4, <2>1, <2>2, <2>3 DEF Breaking
<1>5. m.sock \in Sockets /\ "live" \in Sockets /\ "dead" \in Sockets
  BY DEF MYSAC, Sockets
<1>6. ASSUME NEW n \in Failing(m)
      PROVE  n.proto # "db" /\ n.db = m.db /\ (Deaf(m) => Deaf(n))
  <2>1. CASE m.proto = "start"
    <3>1. n = SetError(m)
      BY <1>6, <2>1 DEF Failing, Doomed, Talking, Exchange
    <3>2. n.proto = m.proto /\ n.db = m.db /\ n.sock = m.sock
      BY <3>1 DEF SetError, MYSAC
    <3> QED BY <2>1, <3>2 DEF Deaf
  <2>2. CASE Doomed(m)
    <3>1. n \in Breaking(m, m.sock)
      BY <1>6, <2>2 DEF Failing, Doomed, Talking, Exchange
    <3> QED BY <1>4, <1>5, <3>1 DEF Deaf
  <2>3. CASE m.proto # "start" /\ ~Doomed(m)
    <3>1. n \in {[SetError(m) EXCEPT !.proto = "start", !.sock = "none"]}
                  \cup Breaking(m, "live") \cup Breaking(m, "dead")
      BY <1>6, <2>3 DEF Failing
    <3>2. /\ [SetError(m) EXCEPT !.proto = "start", !.sock = "none"].proto = "start"
          /\ [SetError(m) EXCEPT !.proto = "start", !.sock = "none"].db = m.db
      BY DEF SetError, MYSAC
    <3>3. ~Deaf(m)
      BY <2>3 DEF Deaf, Doomed, Exchange
    <3> QED BY <1>4, <1>5, <3>1, <3>2, <3>3
  <2> QED BY <2>1, <2>2, <2>3
<1>7. Deaf(m) => Done(m) = {}
  BY DEF Deaf, Done, Talking
<1> QED BY <1>2, <1>3, <1>6, <1>7

LEMMA SessionIo == SessionReady /\ Io(0) /\ (Unborn' <=> Unborn) => SessionInv'
<1> SUFFICES ASSUME SessionReady, Io(0), Unborn' <=> Unborn PROVE SessionInv'
  OBVIOUS
<1> DEFINE s == esql[0]
<1>1. SessionInv /\ s \in EsqlRec /\ s.m \in MYSAC /\ TypeOK /\ Unasked /\ run.at = "io"
  BY SessionObject DEF SessionReady, Io, IoWait, IoDone, IoFail, At, Unasked, history, outcomes
<1>2. ~Unborn /\ ~Missed(s, run.at) /\ ~(Unborn')
  BY <1>1 DEF SessionInv, Missed
<1>3. ASSUME NEW m \in MYSAC
      PROVE  LET r == [s EXCEPT !.m = m] IN r \in EsqlRec /\ SameCall(s, r) /\ r.m = m /\ r.job = s.job
  BY <1>1 DEF EsqlRec, SameCall, HasHandler
<1>4. CASE IoWait(0)
  <2>1. PICK m \in Waiting(s.m) : esql' = [esql EXCEPT ![0] = Active([s EXCEPT !.m = m], run.h, "armed")]
    BY <1>1, <1>4, SessionObject DEF IoWait, TypeOK
  <2>2. m \in MYSAC /\ m.db = s.m.db /\ m.ask = s.m.ask /\ (s.m.proto = "db" <=> m.proto = "db")
    BY <1>1, IoDatabase, IoTyped
  <2> DEFINE t == [s EXCEPT !.m = m]
             r == Active(t, run.h, "armed")
  <2>3. t \in EsqlRec /\ SameCall(s, t) /\ t.m = m /\ t.job = s.job
    BY <1>3, <2>2
  <2>4. esql'[0] = r /\ run.h \in {"fdh", "stray"} /\ run'.at = "loop"
    BY <1>1, <1>4, <2>1, SessionObject DEF TypeOK, IoWait, Idle
  <2> HIDE DEF t
  <2>5. SameCall(t, r) /\ r.m = m /\ r.job = s.job
    BY <2>3, <2>4, ActiveSameCall
  <2> HIDE DEF r
  <2>6. SameCall(s, r)
    BY <2>3, <2>5 DEF SameCall
  <2>7. Base(r) = Base(s) /\ (Open(s, "io") => Open(r, "loop")) /\ (Shut(s, "io") => Shut(r, "loop"))
    BY <2>2, <2>5, <2>6 DEF Base, Open, Shut, SameCall
  <2> QED BY <1>1, <1>2, <2>2, <2>4, <2>5, <2>6, <2>7, SessionSame
<1>5. CASE IoDone(0)
  <2>1. PICK m \in Done(s.m) : esql' = [esql EXCEPT ![0].m = m]
    BY <1>5 DEF IoDone
  <2>2. m \in MYSAC /\ m.proto # "db" /\ m.db = IF s.m.proto = "db" THEN s.m.ask ELSE s.m.db
    BY <1>1, IoDatabase, IoTyped
  <2> DEFINE r == [s EXCEPT !.m = m]
  <2>3. esql'[0] = r /\ SameCall(s, r) /\ r.m = m /\ run'.at = "complete"
    BY <1>1, <1>3, <1>5, <2>1, <2>2, SessionObject DEF TypeOK, IoDone, Goto
  <2>4. Open(s, "io")
    BY <1>1, <1>2, IoDatabase DEF SessionInv, Shut
  <2> HIDE DEF r
  <2>5. Open(r, "complete") /\ Base(r) = Base(s) /\ (s.current = "query" => r.m.db = s.m.db)
        /\ ~Shut(s, "io")
    BY <2>2, <2>3, <2>4 DEF Open, Base, SameCall, Shut
  <2> QED BY <1>1, <1>2, <2>3, <2>5, SessionSame
<1>6. CASE IoFail(0)
  <2>1. PICK m \in Failing(s.m) : esql' = [esql EXCEPT ![0].m = m]
    BY <1>6 DEF IoFail
  <2>2. m \in MYSAC /\ m.proto # "db" /\ m.db = s.m.db /\ (Deaf(s.m) => Deaf(m))
    BY <1>1, IoDatabase, IoTyped
  <2> DEFINE r == [s EXCEPT !.m = m]
  <2>3. esql'[0] = r /\ SameCall(s, r) /\ r.m = m /\ r.job = s.job /\ run'.at = "error"
    BY <1>1, <1>3, <1>6, <2>1, <2>2, SessionObject DEF TypeOK, IoFail, Goto
  <2> HIDE DEF r
  <2>4. CASE s.m.proto # "db"
    <3>1. /\ Base(r) = Base(s) /\ (Open(s, "io") => Open(r, "error"))
          /\ (Shut(s, "io") => Shut(r, "error"))
      BY <2>2, <2>3, <2>4 DEF Open, Base, SameCall, Shut
    <3> QED BY <1>1, <1>2, <2>2, <2>3, <3>1, SessionSame
  <2>5. CASE s.m.proto = "db"
    <3>1. Open(s, "io")
      BY <1>1, <1>2, <2>5 DEF SessionInv, Shut, Deaf
    <3>2. Open(r, "error") /\ Missed(r, "error")
      BY <2>2, <2>3, <2>5, <3>1 DEF Open, SameCall, Missed
    <3> QED BY <1>1, <1>2, <2>3, <3>2, SessionKept
  <2> QED BY <2>4, <2>5
<1> QED BY <1>4, <1>5, <1>6 DEF Io

\* A query that is answered was sent to the database it was made for.
LEMMA SessionComplete == SessionReady /\ Complete(0) /\ (Unborn' <=> Unborn) => SessionInv'
<1> SUFFICES ASSUME SessionReady, Complete(0), Unborn' <=> Unborn PROVE SessionInv'
  OBVIOUS
<1> DEFINE s == esql[0]
<1>1. SessionInv /\ s \in EsqlRec /\ TypeOK /\ run.at = "complete"
  BY SessionObject DEF SessionReady, Complete, CompleteInit, CompleteQuery, CompleteOther, At
<1>2. ~Unborn /\ Open(s, "complete") /\ ~Missed(s, run.at) /\ Directed(s)
  BY <1>1 DEF SessionInv, Missed, Shut, Open
<1>3. CASE CompleteInit(0)
  <2> DEFINE r == [s EXCEPT !.connected = TRUE]
  <2>1. esql'[0] = r /\ run'.at \in {"ready", "next"} /\ Unasked /\ s.current = "init"
    BY <1>1, <1>3, SessionObject DEF CompleteInit, TypeOK, Goto, Unasked, outcomes
  <2>2. /\ r.m = s.m /\ r.current = s.current /\ r.curId = s.curId /\ r.queue = s.queue
        /\ r.connected /\ r.fdh = s.fdh /\ r.stray = s.stray
    BY <1>1 DEF EsqlRec
  <2> HIDE DEF r
  <2>3. Open(r, run'.at) /\ Directed(r)
    BY <1>2, <2>1, <2>2 DEF Open, Directed, Under, Base, HasHandler
  <2> QED BY <1>1, <1>2, <2>1, <2>3, SessionKept
<1>4. CASE CompleteQuery(0)
  <2>1. /\ esql' = esql /\ run'.at \in {"result", "next"} /\ s.current = "query"
        /\ ran' = ran \cup {<<s.curId, s.m.db>>}
        /\ issuedFor' = issuedFor /\ asked' = asked /\ lastId' = lastId
    BY <1>1, <1>4, SessionObject DEF CompleteQuery, TypeOK, Goto
  <2>2. Open(s, run'.at)
    BY <1>2, <2>1 DEF Open
  <2>3. Directed(esql[0])'
    BY <1>2, <2>1 DEF Directed, Ahead, Under
  <2>4. \A p \in ran' : p[1] <= lastId' /\ (issuedFor'[p[1]] # NoDb => p[2] = issuedFor'[p[1]])
    BY <1>1, <1>2, <2>1, KnownIds DEF SessionInv, Directed, Under
  <2> QED BY <1>2, <2>1, <2>2, <2>3, <2>4 DEF SessionInv
<1>5. CASE CompleteOther(0)
  <2>1. /\ esql' = esql /\ run'.at = "next" /\ s.current \in {"database_set", "none"} /\ Unasked
    BY <1>1, <1>5, SessionObject DEF CompleteOther, TypeOK, Goto, Unasked, history, outcomes
  <2>2. Open(s, run'.at)
    BY <1>2, <2>1 DEF Open
  <2> QED BY <1>1, <1>2, <2>1, <2>2, SessionKept
<1> QED BY <1>3, <1>4, <1>5 DEF Complete

\* Nothing is rebalanced in a plain object.
LEMMA PlainQueue == ASSUME ~Pooled PROVE Rebalanced(0) = esql
  BY DEF Rebalanced

\* The queries behind the head of a queue, once it has been popped: a query
\* leaves the database as it is, a switch changes it to its own.
LEMMA AheadTail ==
  ASSUME NEW q \in Seq(Call), q # <<>>, NEW base, Ahead(q, base)
  PROVE  /\ Head(q).fn = "query" => Ahead(Tail(q), base)
         /\ Head(q).fn = "database_set" => Ahead(Tail(q), Head(q).db)
         /\ Head(q).fn = "query" /\ issuedFor[Head(q).id] # NoDb => base = issuedFor[Head(q).id]
<1> DEFINE t == Tail(q)
<1>1. /\ Len(q) \in Nat \ {0} /\ DOMAIN q = 1 .. Len(q) /\ DOMAIN t = 1 .. (Len(q) - 1)
      /\ Head(q) = q[1] /\ Len(t) + 1 = Len(q)
      /\ \A i \in DOMAIN t : i \in 1 .. Len(q) /\ i + 1 \in DOMAIN q /\ t[i] = q[i + 1]
  OBVIOUS
<1>2. ASSUME NEW i \in DOMAIN t, t[i].fn = "query", issuedFor[t[i].id] # NoDb
      PROVE  /\ Head(q).fn = "query" => Reaches(t, base, i, issuedFor[t[i].id])
             /\ Head(q).fn = "database_set" => Reaches(t, Head(q).db, i, issuedFor[t[i].id])
  <2>1. Reaches(q, base, i + 1, issuedFor[t[i].id])
    BY <1>1, <1>2 DEF Ahead
  <2> QED BY <1>1, <2>1, ReachesTail
<1>3. ASSUME asked # NoDb
      PROVE  /\ Head(q).fn = "query" => Reaches(t, base, Len(t) + 1, asked)
             /\ Head(q).fn = "database_set" => Reaches(t, Head(q).db, Len(t) + 1, asked)
  <2>1. Reaches(q, base, Len(q) + 1, asked) /\ Len(q) \in 1 .. Len(q)
    BY <1>1, <1>3 DEF Ahead
  <2> QED BY <1>1, <2>1, ReachesTail
<1>4. ASSUME Head(q).fn = "query", issuedFor[Head(q).id] # NoDb PROVE base = issuedFor[Head(q).id]
  <2>1. Reaches(q, base, 1, issuedFor[q[1].id])
    BY <1>1, <1>4 DEF Ahead
  <2> QED BY <1>1, <2>1 DEF Reaches
<1> QED BY <1>2, <1>3, <1>4 DEF Ahead

LEMMA SessionNextIdle == SessionReady /\ NextIdle(0) /\ (Unborn' <=> Unborn) => SessionInv'
<1> SUFFICES ASSUME SessionReady, NextIdle(0), Unborn' <=> Unborn PROVE SessionInv'
  OBVIOUS
<1> DEFINE s == esql[0]
           r == Finished(s)
<1>1. /\ SessionInv /\ s \in EsqlRec /\ Unasked /\ run.at = "next" /\ run'.at = "loop"
      /\ s.queue = <<>> /\ esql'[0] = r
  BY SessionObject, PlainQueue DEF SessionReady, NextIdle, At, Idle, Unasked, history, outcomes, TypeOK
<1>2. ~Unborn /\ ~(Unborn') /\ ~Missed(s, run.at)
  BY <1>1 DEF SessionInv, Missed
<1>3. /\ r.m = s.m /\ r.current = "none" /\ r.queue = s.queue /\ r.job = s.job
      /\ r.connected = s.connected /\ r.fdh = s.fdh /\ r.stray = s.stray
  BY <1>1 DEF Finished, EsqlRec
<1> HIDE DEF r
<1>4. /\ Open(s, "next") => Open(r, "loop")
      /\ Shut(s, "next") => Shut(r, "loop")
      /\ Base(r) = Base(s) /\ (HasHandler(r) <=> HasHandler(s))
  BY <1>1, <1>3 DEF Open, Shut, HasHandler, Base
<1>5. Directed(s) => Directed(r)
  BY <1>3, <1>4 DEF Directed, Under
<1> QED BY <1>1, <1>2, <1>4, <1>5, SessionKept DEF SessionInv

\* The switch at the head is begun, and is what the others find now.
LEMMA SessionNextDatabase == SessionReady /\ NextDatabase(0) /\ (Unborn' <=> Unborn) => SessionInv'
<1> SUFFICES ASSUME SessionReady, NextDatabase(0), Unborn' <=> Unborn PROVE SessionInv'
  OBVIOUS
<1> DEFINE s == esql[0]
           d == Head(s.queue).db
           f == Finished(s)
<1>1. /\ SessionInv /\ s \in EsqlRec /\ s.m \in MYSAC /\ s.queue \in Seq(Call) /\ Unasked
      /\ run.at = "next" /\ run'.at = "io"
      /\ s.queue # <<>> /\ Head(s.queue).fn = "database_set"
  BY SessionObject DEF SessionReady, NextDatabase, At, Unasked, history, outcomes, TypeOK
<1>2. esql'[0] = Active([DatabaseSwitched(f, d) EXCEPT !.queue = Tail(@)], "fdh", "off")
  BY <1>1, SessionObject DEF NextDatabase, TypeOK
<1>3. ~Unborn /\ ~(Unborn') /\ ~Missed(s, run.at)
  BY <1>1 DEF SessionInv, Missed
<1>4. /\ f \in EsqlRec /\ f.m = s.m /\ f.current = "none" /\ f.queue = s.queue /\ f.job = s.job
      /\ f.connected = s.connected /\ f.fdh = s.fdh /\ f.stray = s.stray
  BY <1>1, FinishedTyped DEF Finished, EsqlRec
<1> HIDE DEF f
<1>5. CASE Open(s, "next")
  <2>1. s.connected /\ Directed(s) /\ s.m.proto # "db"
    BY <1>1, <1>3, <1>5 DEF Open, SessionInv
  <2> DEFINE g == [f EXCEPT !.m = SetDatabase(@, d), !.current = "database_set"]
             v == [g EXCEPT !.queue = Tail(@)]
             t == Active(v, "fdh", "off")
  <2>2. esql'[0] = t
    BY <1>2, <1>4, <2>1 DEF DatabaseSwitched
  <2>3. /\ t.m = SetDatabase(s.m, d) /\ t.current = "database_set" /\ t.queue = Tail(s.queue)
        /\ t.connected = s.connected /\ (HasHandler(t) <=> HasHandler(s))
    <3>1. /\ v.m = SetDatabase(s.m, d) /\ v.current = "database_set" /\ v.queue = Tail(s.queue)
          /\ v.connected = s.connected /\ v.fdh = s.fdh /\ v.stray = s.stray
          /\ {"m", "current", "queue", "connected", "fdh", "stray"} \subseteq DOMAIN v
      BY <1>4 DEF EsqlRec
    <3> HIDE DEF v
    <3> QED BY <3>1 DEF Active, HasHandler
  <2> HIDE DEF t
  <2>4. t.m.proto = "db" /\ t.m.ask = d
    BY <1>1, <2>3 DEF SetDatabase, MYSAC
  <2>5. Open(t, "io") /\ Base(t) = d
    BY <1>5, <2>1, <2>3, <2>4 DEF Open, Base
  <2>6. Directed(t)
    BY <1>1, <2>1, <2>3, <2>5, AheadTail DEF Directed, Under
  <2> QED BY <1>1, <1>3, <2>2, <2>5, <2>6, SessionKept
<1>6. CASE Shut(s, "next")
  <2> DEFINE c == [fn |-> "database_set", id |-> 0, db |-> d]
  <2>1. ~s.connected
    BY <1>6 DEF Shut
  <2>2. /\ esql'[0].m = s.m /\ esql'[0].connected = s.connected /\ esql'[0].job = s.job
        /\ HasHandler(esql'[0]) <=> HasHandler(s)
    <3>1. DatabaseSwitched(f, d) = [f EXCEPT !.queue = Append(@, c)]
      BY <1>4, <2>1 DEF DatabaseSwitched, Enqueued
    <3> DEFINE q == Append(f.queue, c)
               h == [f EXCEPT !.queue = q]
    <3>2. /\ h.m = f.m /\ h.connected = f.connected /\ h.job = f.job /\ h.fdh = f.fdh /\ h.stray = f.stray
          /\ DOMAIN h = DOMAIN f
      BY <1>4 DEF EsqlRec
    <3> DEFINE v == [h EXCEPT !.queue = Tail(@)]
    <3>3. esql'[0] = Active(v, "fdh", "off")
      BY <1>2, <3>1
    <3> HIDE DEF h
    <3>4. {"m", "connected", "job", "fdh", "stray"} \subseteq DOMAIN h
      BY <1>4, <3>2 DEF EsqlRec
    <3>5. /\ v.m = h.m /\ v.connected = h.connected /\ v.job = h.job
          /\ v.fdh = h.fdh /\ v.stray = h.stray /\ DOMAIN v = DOMAIN h
      BY <3>4
    <3> HIDE DEF v
    <3> QED BY <1>4, <3>2, <3>3, <3>4, <3>5 DEF Active, HasHandler
  <2>3. Shut(esql'[0], "io") /\ ~HasHandler(esql'[0])
    BY <1>6, <2>2 DEF Shut
  <2> QED BY <1>1, <1>3, <2>3, SessionKept
<1> QED BY <1>1, <1>3, <1>5, <1>6 DEF SessionInv

\* The query at the head goes to the backend, at the database it was made for.
LEMMA SessionNextQuery == SessionReady /\ NextQuery(0) /\ (Unborn' <=> Unborn) => SessionInv'
<1> SUFFICES ASSUME SessionReady, NextQuery(0), Unborn' <=> Unborn PROVE SessionInv'
  OBVIOUS
<1> DEFINE s == esql[0]
           id == Head(s.queue).id
<1>1. /\ SessionInv /\ s \in EsqlRec /\ s.m \in MYSAC /\ s.queue \in Seq(Call) /\ Unasked
      /\ run.at = "next" /\ run'.at \in {"io", "error"} /\ TypeOK
      /\ s.queue # <<>> /\ Head(s.queue).fn = "query"
  BY SessionObject, PlainQueue
     DEF SessionReady, NextQuery, At, OffersQuery, Unasked, history, outcomes, TypeOK
<1>0. PICK m \in {SetQuery(s.m), QueryTooLong(s.m)} :
        \E r : /\ esql' = [esql EXCEPT ![0] = r]
               /\ r \in {Taken([s EXCEPT !.m = m], id), Active(Taken([s EXCEPT !.m = m], id), "fdh", "off")}
  BY <1>1, PlainQueue, SessionObject DEF NextQuery, SessionReady
<1>2. PICK r :
        /\ esql' = [esql EXCEPT ![0] = r]
        /\ r \in {Taken([s EXCEPT !.m = m], id), Active(Taken([s EXCEPT !.m = m], id), "fdh", "off")}
  BY <1>0
<1>3. ~Unborn /\ ~(Unborn') /\ ~Missed(s, run.at)
  BY <1>1 DEF SessionInv, Missed
<1>4. m \in MYSAC /\ m.db = s.m.db /\ m.sock = s.m.sock /\ m.proto \in {s.m.proto, "query"}
  <2>1. m \in MYSAC
    BY <1>1, <1>2, CommandsTyped
  <2>2. m.db = s.m.db /\ m.sock = s.m.sock /\ m.proto \in {s.m.proto, "query"}
    BY <1>1, <1>2 DEF SetQuery, QueryTooLong, SetError, MYSAC
  <2> QED BY <2>1, <2>2
<1> DEFINE t == [s EXCEPT !.m = m]
           w == Taken(t, id)
<1>5. /\ t \in EsqlRec /\ t.m = m /\ t.queue = s.queue /\ t.job = s.job
      /\ t.connected = s.connected /\ t.fdh = s.fdh /\ t.stray = s.stray
  BY <1>1, <1>4 DEF EsqlRec
<1>6. esql'[0] = r /\ r \in {w, Active(w, "fdh", "off")}
  BY <1>1, <1>2, SessionObject DEF TypeOK
<1> HIDE DEF t
<1>7. /\ r.m = m /\ r.current = "query" /\ r.curId = id /\ r.queue = Tail(s.queue) /\ r.job = s.job
      /\ r.connected = s.connected /\ (HasHandler(r) <=> HasHandler(s))
  <2>1. /\ w.m = m /\ w.current = "query" /\ w.curId = id /\ w.queue = Tail(s.queue)
        /\ w.job = s.job /\ w.connected = s.connected /\ w.fdh = s.fdh /\ w.stray = s.stray
        /\ {"m", "current", "curId", "queue", "job", "connected", "fdh", "stray"} \subseteq DOMAIN w
    BY <1>5 DEF Taken, EsqlRec
  <2> HIDE DEF w
  <2> QED BY <1>6, <2>1 DEF Active, HasHandler
<1>8. /\ Open(s, "next") => Open(r, run'.at) /\ Base(s) = s.m.db /\ Base(r) = s.m.db
      /\ Shut(s, "next") => Shut(r, run'.at)
      /\ HasHandler(r) <=> HasHandler(s)
  <2>1. Open(s, "next") => Open(r, run'.at) /\ Base(s) = s.m.db /\ Base(r) = s.m.db
    BY <1>1, <1>4, <1>7 DEF Open, Base
  <2>2. Shut(s, "next") => Shut(r, run'.at)
    BY <1>1, <1>4, <1>7 DEF Shut, Deaf
  <2> QED BY <1>7, <2>1, <2>2
<1>9. ASSUME Open(s, "next") PROVE Directed(r)
  <2>1. Directed(s) /\ Base(s) = s.m.db /\ Base(r) = s.m.db
    BY <1>1, <1>3, <1>8, <1>9 DEF SessionInv, Open
  <2> QED BY <1>1, <1>4, <1>7, <2>1, AheadTail DEF Directed, Under
<1>10. HasHandler(r) => Open(s, "next")
  BY <1>1, <1>3, <1>8 DEF SessionInv, Shut
<1> QED BY <1>1, <1>3, <1>6, <1>8, <1>9, <1>10, SessionKept DEF SessionInv

LEMMA SessionError == SessionReady /\ Error(0) /\ (Unborn' <=> Unborn) => SessionInv'
<1> SUFFICES ASSUME SessionReady, Error(0), Unborn' <=> Unborn PROVE SessionInv'
  OBVIOUS
<1> DEFINE s == esql[0]
<1>1. SessionInv /\ s \in EsqlRec /\ TypeOK
  BY SessionObject DEF SessionReady
<1>2. ~Unborn /\ ~(Unborn')
  BY <1>1 DEF SessionInv, Error, ErrorQuery, ErrorOther, Down, At
<1>3. CASE ErrorQuery(0)
  <2>1. /\ esql' = esql /\ run.at = "error" /\ run'.at \in {"failed", "down", "next"}
        /\ s.current = "query" /\ Unasked
    BY <1>1, <1>3 DEF ErrorQuery, At, Goto, AfterFailure, TypeOK, Unasked
  <2>2. /\ Open(s, "error") => Open(s, run'.at)
        /\ Shut(s, "error") => Shut(s, run'.at)
        /\ ~Missed(s, run.at)
    BY <2>1 DEF Open, Shut, Missed
  <2> QED BY <1>1, <1>2, <2>1, <2>2, SessionSame DEF SameCall
<1>4. CASE ErrorOther(0)
  <2>1. /\ esql' = esql /\ run.at = "error" /\ run'.at \in {"refused", "down"} /\ Unasked
    BY <1>1, <1>4 DEF ErrorOther, At, Goto, TypeOK, Unasked, history, outcomes
  <2>2. /\ Open(s, "error") => Open(s, run'.at)
        /\ Shut(s, "error") => Shut(s, run'.at)
        /\ Missed(s, run.at) => Missed(s, run'.at)
    BY <2>1 DEF Open, Shut, Missed
  <2> QED BY <1>1, <1>2, <2>1, <2>2, SessionSame DEF SameCall
<1>5. CASE Down(0)
  <2>1. CloseAndRetry(0, s) /\ run'.at = "loop" /\ Unasked
    BY <1>5 DEF Down, CloseAndRetry, Idle, Unasked, outcomes
  <2> QED BY <1>1, <1>2, <2>1, SessionClosed
<1> QED BY <1>3, <1>4, <1>5 DEF Error

LEMMA SessionCbReturns == SessionReady /\ CbReturns(0) /\ (Unborn' <=> Unborn) => SessionInv'
<1> SUFFICES ASSUME SessionReady, CbReturns(0), Unborn' <=> Unborn PROVE SessionInv'
  OBVIOUS
<1> DEFINE s == esql[0]
<1>1. SessionInv /\ s \in EsqlRec /\ TypeOK /\ Unasked
  BY SessionObject
     DEF SessionReady, CbReturns, ConnectCbReturns, QueryCbReturns, Unasked, history, outcomes
<1>2. ~Unborn /\ ~(Unborn')
  BY <1>1 DEF SessionInv, CbReturns, ConnectCbReturns, QueryCbReturns, At
<1>3. CASE ConnectCbReturns(0)
  <2>1. /\ esql' = esql
        /\ \/ run.at = "ready" /\ run'.at = "next"
           \/ run.at = "refused" /\ run'.at = "down"
    BY <1>1, <1>3 DEF ConnectCbReturns, At, Goto, TypeOK
  <2>2. /\ Open(s, run.at) => Open(s, run'.at)
        /\ Shut(s, run.at) => Shut(s, run'.at)
        /\ Missed(s, run.at) => Missed(s, run'.at)
    BY <2>1 DEF Open, Shut, Missed
  <2> QED BY <1>1, <1>2, <2>1, <2>2, SessionSame DEF SameCall
<1>4. CASE QueryCbReturns(0)
  <2> DEFINE r == esql'[0]
  <2>1. run.at \in {"result", "failed"} /\ run'.at \in {"next", "down"}
    BY <1>1, <1>4 DEF QueryCbReturns, At, Goto, AfterFailure, TypeOK
  <2>2. /\ SameCall(s, r) /\ r.job = s.job
        /\ r.m.proto = s.m.proto /\ r.m.sock = s.m.sock /\ r.m.ask = s.m.ask /\ r.m.db = s.m.db
    BY <1>4, ErrorForgotten DEF QueryCbReturns, ResultReturned
  <2> HIDE DEF r
  <2>3. /\ Open(s, run.at) => Open(r, run'.at)
        /\ Shut(s, run.at) => Shut(r, run'.at)
        /\ ~Missed(s, run.at) /\ Base(r) = Base(s)
    BY <2>1, <2>2 DEF Open, Shut, Deaf, Missed, SameCall, Base
  <2> QED BY <1>1, <1>2, <2>2, <2>3, SessionSame DEF r
<1> QED BY <1>3, <1>4 DEF CbReturns

LEMMA SessionChain ==
  \A e \in Conns : SessionReady /\ Chain(e) /\ (Unborn' <=> Unborn) => SessionInv'
  BY SessionObject, SessionIo, SessionComplete, SessionNextIdle, SessionNextDatabase, SessionNextQuery,
     SessionError, SessionCbReturns DEF Chain, NextCall

----------------------------------------------------------------------------

LEMMA SessionInit == Init => SessionInv
<1> SUFFICES ASSUME Init PROVE SessionInv
  OBVIOUS
<1>1. esql[0] = NewEsql /\ run.at = "loop" /\ budget = Budget /\ asked = NoDb /\ ran = {}
  BY ConstantsTyped DEF Init, Idle
<1>2. NotYet(NewEsql) /\ Directed(NewEsql)
  BY <1>1 DEF NotYet, NewEsql, HasHandler, Directed, Ahead, Under
<1> QED BY <1>1, <1>2 DEF SessionInv, Unborn

SessionUntilSecond == Spent /\ (InSession => SessionInv)

LEMMA SessionStep ==
  QueryInv /\ CountUntilSet /\ SessionUntilSecond /\ [Next]_vars => SessionUntilSecond'
<1> SUFFICES ASSUME QueryInv, CountUntilSet, SessionUntilSecond, [Next]_vars PROVE SessionUntilSecond'
  OBVIOUS
<1>1. TypeOK /\ Spent /\ Spent'
  BY SpentStep DEF QueryInv, TypeInv, SessionUntilSecond
<1>2. ASSUME InSession' PROVE SessionInv'
  <2>1. /\ InSession /\ ~Disconnect
        /\ IF Connect THEN Unborn /\ ~(Unborn') ELSE Unborn' <=> Unborn
    BY <1>1, <1>2, SessionBefore
  <2>2. SessionReady
    BY <2>1 DEF SessionReady, SessionUntilSecond, InSession, OneSession, CountUntilSet, CountInv
  <2>3. CASE Program
    BY <1>2, <2>1, <2>2, <2>3, SessionProgram
  <2>4. CASE UNCHANGED vars
    <3>1. UNCHANGED <<esql, run, budget, issuedFor, asked, lastId, ran>>
      BY <2>4 DEF vars, history, outcomes
    <3> QED BY <2>2, <3>1 DEF SessionReady, SessionInv, Unborn, Directed, Ahead, Under
  <2>5. ~Program => ~Connect
    BY DEF Program
  <2> QED BY <2>1, <2>2, <2>3, <2>4, <2>5, SessionResultEvent, SessionSources, SessionChain DEF Next
<1> QED BY <1>1, <1>2 DEF SessionUntilSecond

\* In a plain object's only session every query the server answers was run
\* against the database the program had last asked for when it made it: for
\* any number of queries, switches, failures, timeouts and callbacks, in any order.
THEOREM DirectedAtDbCorrect == Spec => []DirectedAtDb
<1>1. Init => SessionUntilSecond
  <2>1. Init => Spent
    BY DEF Init, Spent
  <2> QED BY <2>1, SessionInit DEF SessionUntilSecond
<1>2. SessionUntilSecond => DirectedAtDb
  BY DEF SessionUntilSecond, InSession, SessionInv, DirectedAtDb
<1>3. Init => CountUntilSet
  BY CountInit DEF CountUntilSet
<1>4. TypeInv /\ CountUntilSet /\ [Next]_vars => CountUntilSet'
  BY NeverBefore, CountStep DEF CountUntilSet
<1>5. Spec => []CountUntilSet
  BY <1>3, <1>4, TypeInvariant, PTL DEF Spec
<1> QED BY <1>1, <1>2, <1>5, SessionStep, QueryInvariant, PTL DEF Spec
=============================================================================
