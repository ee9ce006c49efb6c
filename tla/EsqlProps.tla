------------------------------ MODULE EsqlProps ------------------------------
(***************************************************************************)
(* What the event loop owes the program that uses it.                      *)
(***************************************************************************)
EXTENDS Esql

----------------------------------------------------------------------------
(* What the program has not done so far *)

\* The program has not disconnected anything itself.
NeverDisconnected == budget["disconnect"] = Budget["disconnect"]

\* Nothing can have led to a second session: no timer dials, and neither did
\* the program twice.
OneSession ==
  NeverDisconnected /\ reconnect = "never" /\ budget["connect"] + 1 >= Budget["connect"]

\* The library has called the program back for events alone.
NoCallbacks == ~HasConnectCb /\ budget["callback"] = Budget["callback"]

----------------------------------------------------------------------------
(* Queries *)

\* The queue entries that hold query id.
Queued(id) ==
  UNION {{<<e, i>> : i \in {j \in DOMAIN esql[e].queue : esql[e].queue[j].id = id}} : e \in Conns}

\* The objects whose call under way is query id, still without an outcome.
InFlight(id) == {e \in Conns : esql[e].current = "query" /\ esql[e].curId = id /\ id \notin Resolved}

Places(id) == Cardinality(Queued(id)) + Cardinality(InFlight(id))

\* A query is in one queue entry of one member or is the call one member has
\* under way, never both and never twice, and leaves the queues for good once
\* it has its outcome: rebalancing, popping and re-queueing copy nothing.
OnePlace == \A id \in Ids :
  /\ Places(id) <= 1
  /\ id > lastId \/ id \in Resolved => Queued(id) = {}

\* The program hears of a query at most once: one result or one error result,
\* or an ERROR event instead, whatever is disconnected, redialled or failing
\* in between.
AnsweredOnce == \A id \in Ids :
  /\ answers[id] <= 1
  /\ answers[id] = 1 => id \notin reported \cup dropped
  /\ id \notin reported \cap dropped

\* The data pointer given with a query stays with it: in esql_query_data as
\* long as it is queued, in cur_data while it runs, and the hash forgets it then.
DataKept == \A id \in Ids :
  /\ hash[id] = IF Queued(id) # {} THEN DataOf(id) ELSE NoData
  /\ \A e \in InFlight(id) : esql[e].curData = DataOf(id)

\* A query without an outcome disappears only when its connection is dialled
\* again over it (the case KNOWN_BUGS admits for pools): no disconnect,
\* failure, rebalancing or database switch forgets a query.
LostOnlyByDialling ==
  [][\A id \in 1 .. lastId :
       id \notin Resolved /\ Places(id) = 1 =>
         \/ id \in Resolved' \/ Places(id)' = 1
         \/ \E e \in InFlight(id) : esql'[e].current = "init"]_vars

\* A plain object implements QueryService: the query under way and those of the
\* queue wait.
Outcome == [id \in Ids |-> IF id > lastId THEN "none"
                           ELSE IF id \in Resolved THEN "ended"
                           ELSE IF Places(id) = 0 THEN "lost" ELSE "waiting"]

Service == INSTANCE QueryService WITH outcome <- Outcome

\* Queries end in the order in which they were accepted, each once, and only
\* the first of those that wait can be lost.
ServesInOrder == Service!SSpec

\* While nothing fails, the queries keep moving: the first that waits always ends.
KeepsServing == Service!SFairSpec

\* An accepted query gets its outcome, unless a member is disconnected.
EveryQueryEnds == \A id \in Ids :
  id <= lastId ~> (id \in Resolved \/ \E e \in Conns : ~esql[e].connected)

----------------------------------------------------------------------------
(* Databases *)

\* Within a session of a plain object a query runs against the database the
\* program had last asked for when it made the query
\* (src/lib/esql_connect.c:134-136), however many switches were queued, failed
\* or started before it.  (A second session starts without a database:
\* esql_connect selects none, and esql_reconnect_handler queues its switch
\* behind the queries that need it, src/lib/esql_events.c:207.  In a pool,
\* esql_pool_rebalance moves a query from behind a slow member's earlier calls
\* to a member that has made a later switch already, src/lib/esql_pool.c:54.)
DirectedAtDb == ~Pooled /\ OneSession =>
  \A p \in ran : issuedFor[p[1]] # NoDb => p[2] = issuedFor[p[1]]

\* A switch the program asks for on a connection comes to an end (the same
\* promise: subsequent queries are directed at the database).
SwitchEnds == \A e \in Conns :
  esql[e].current = "database_set" ~> esql[e].current # "database_set"

----------------------------------------------------------------------------
(* Connections *)

Connected == {e \in Conns : esql[e].connected}

\* ecore watches one descriptor of an object through one handler: a dial over
\* a connection that still has one does not leave two that both run the chain.
OneHandler == \A e \in Conns : esql[e].fdh = "none" \/ esql[e].stray = "none"

\* A connected object with a handshake or a query under way has something that
\* will wake it up when the main loop is reached: a job, or a descriptor waited
\* for.  (Not so one that was dialled twice: the second dial leaves e->fdh NULL,
\* src/lib/esql_connect.c:66, and esql_next arms e->fdh alone; nor a switch made
\* on an idle object, see SwitchEnds.)
Wakeable == run.at = "loop" =>
  \A e \in Connected : esql[e].current \in {"init", "query"} /\ esql[e].stray = "none" =>
     esql[e].job \/ esql[e].fdh = "armed"

\* While nothing reconnects by itself, the last CONNECT or DISCONNECT event of
\* a plain object is the state of its connection, and neither comes twice
\* running: no failure, timeout, disconnect or second dial tears a connection
\* down silently or announces it again.  (A reconnect timer that fires late and
\* cannot dial tells DISCONNECT of a connection that is up,
\* src/lib/esql_events.c:210-213.  The connect callback, which is documented to
\* replace CONNECT, is called for a failure of the connection as well,
\* src/lib/esql_events.c:272-273, so that with one the claim is false.)
ToldRight == reconnect = "never" /\ ~Pooled /\ ~HasConnectCb =>
  ~told.again /\ (told.what = "connect" <=> esql[0].connected)

\* Some descriptor handler belongs to s; one waits for its descriptor; the
\* chain is going through object e.
HasHandler(s) == s.fdh # "none" \/ s.stray # "none"
Armed(s) == s.fdh = "armed" \/ s.stray = "armed"
Busy(e) == run.at # "loop" /\ run.e = e

\* An object that is connected, will be dialled, or is in a handshake that
\* something moves on.
Trying(e) ==
  \/ esql[e].connected \/ esql[e].rtimers > 0
  \/ esql[e].current = "init" /\ (Armed(esql[e]) \/ (Busy(e) /\ HasHandler(esql[e])))

\* While reconnecting is on, an object goes on trying whatever happens to its
\* connection ("if disconnection occurs for any reason",
\* src/lib/esql_connect.c:246-247), unless the program disconnects it or the
\* dial of its last timer fails at once (src/lib/esql_events.c:210).  (A dial
\* the program makes in a callback is forgotten when the chain goes on: esql_next
\* clears current, src/lib/esql_events.c:37, and nobody tries again.)
KeepsTrying ==
  [][\A e \in Conns :
       reconnect = "on" /\ budget'["disconnect"] = budget["disconnect"] /\ Trying(e) /\ ~(Trying(e)') =>
         esql'[e].rtimers < esql[e].rtimers \/ At("next", e)]_vars

\* When the main loop is reached, a client that has logged in belongs to an
\* object that is connected or has its handshake still under way, whatever was
\* dialled, timed out or closed.  (Not so once the program dials in a callback,
\* see KeepsTrying.)
LoginNoticed == run.at = "loop" /\ NoCallbacks =>
  \A e \in Conns :
    esql[e].m.proto \notin {"start", "auth", "failed"} /\ esql[e].m.sock = "live" =>
      esql[e].connected \/ esql[e].current = "init"

\* The client is in the middle of the exchange of the call under way, which has
\* no outcome yet.
MidCall(s) ==
  /\ Talking(s.m)
  /\ <<s.current, s.m.proto>> \in {<<"query", "query">>, <<"database_set", "db">>}
  /\ s.current = "query" => s.curId \notin Resolved

\* s before and t after a step that gives the client no other command.
NoNewCommand(s, t) ==
  \/ t.m = Fresh
  \/ t.m.proto \notin {"query", "db"}
  \/ t.current = s.current /\ t.curId = s.curId /\ t.m.ask = s.m.ask

\* A client in the middle of a call is given no other command: only a
\* disconnect or the end of the exchange makes room for one, after whatever
\* failure, callback or second dial.
CommandsInTurn == [][\A e \in Conns : MidCall(esql[e]) => NoNewCommand(esql[e], esql'[e])]_vars

----------------------------------------------------------------------------
(* Pools *)

\* The pool counts no member less than are connected: it never takes the
\* last connection for lost while another is up, and never goes below zero.
PoolCovers == Pooled => pool.count >= Cardinality(Connected)

\* While nothing reconnects by itself, the pool counts exactly its connected members.
PoolCount == reconnect = "never" => (Pooled => pool.count = Cardinality(Connected))

\* While nothing reconnects by itself, a pool that still says it is connected
\* after its last member went has told the program DISCONNECT: its flag
\* outlives the connections (src/lib/esql_connect.c:96-99), the event does not
\* fail to come.
PoolTellsLoss ==
  Pooled /\ ~HasConnectCb /\ reconnect = "never" /\ pool.connected /\ Connected = {} => told.what = "disconnect"
=============================================================================
