-------------------------------- MODULE Esql --------------------------------
(***************************************************************************)
(* The event loop of the library (src/lib/esql_events.c, esql_connect.c,   *)
(* esql_query.c, esql_pool.c): connections that run one call at a time on  *)
(* an ecore main loop, the calls queued behind it, and pools that share    *)
(* out queries among their members, over the MySQL backend (Mysac).        *)
(*                                                                         *)
(* The process has one thread.  A dispatch of the main loop -- a ready     *)
(* descriptor, a job, a timer -- runs the chain esql_connect_handler ->    *)
(* esql_call_complete or esql_event_error -> esql_next -> ..., which is    *)
(* made of tail calls: `run' names the function to run next and the object *)
(* it runs on.  The chain calls the program back at four points, and there *)
(* the program may call any function of the library, as it may from the    *)
(* main loop itself.                                                       *)
(***************************************************************************)
EXTENDS Mysac, Sequences, FiniteSets

CONSTANTS
  Size,              \* connections of the pool (ep->size); 1 for a plain object
  Pooled,            \* whether the object is a pool
  MaxId,             \* bound on accepted queries
  IdsWithData,       \* the queries issued with a data pointer that is not NULL
  HasConnectCb,      \* esql_connect_callback_set
  Budget             \* bounds on what the program and the network may still do

BudgetKinds == {"fault", "connect", "disconnect", "database", "timeout", "callback", "reconnect", "keep"}

ASSUME SizeAssumption == Size \in Nat \ {0}
ASSUME PooledAssumption == Pooled \in BOOLEAN /\ (~Pooled => Size = 1)
ASSUME MaxIdAssumption == MaxId \in Nat
ASSUME SettingsAssumption == HasConnectCb \in BOOLEAN
ASSUME BudgetAssumption == Budget \in [BudgetKinds -> Nat]

Conns == 0 .. (Size - 1)     \* members by pool_id, the order of ep->esqls
Ids == 1 .. MaxId            \* query identifiers
NoData == 0
DataOf(id) == IF id \in IdsWithData THEN id ELSE NoData

VARIABLES
  esql,        \* the objects: struct Esql
  pool,        \* struct Esql_Pool: connected and e_connected
  database,    \* e->database of the object the program holds
  reconnect,   \* e->reconnect of every object; "never": FALSE as calloc left it
  lastId,      \* esql_id
  hash,        \* esql_query_data: data of queued queries
  callbacks,   \* esql_query_callbacks: ids with a callback
  results,     \* results not yet freed: in RESULT events, or kept by the program
  run,         \* what the thread does next
  budget,      \* what is left of Budget
  (* history *)
  answers,     \* how often the program got a result or an error result, by id
  reported,    \* ids whose failure was reported by an ERROR event alone
  dropped,     \* ids whose failure was reported to nobody
  issuedFor,   \* the database last asked for when a query was issued
  ran,         \* the queries the server answered, with the database it used
  told,        \* the last connection state the program was told, and if it was told it before
  asked        \* the database the program last asked for

outcomes == <<answers, reported, dropped, issuedFor, ran>>
history == <<outcomes, told, asked>>
vars == <<esql, pool, database, reconnect, lastId, hash, callbacks, results, run, budget, history>>

----------------------------------------------------------------------------
(* The shape of the state *)

Currents == {"none", "init", "database_set", "query"}   \* Esql_Connect_Type
Handlers == {"none", "off", "armed"}                    \* Ecore_Fd_Handler

\* backend_set_funcs, backend_set_params and backend_ids, appended to and
\* popped together.
Call == [fn : {"query"}, id : Ids, db : {NoDb}]
          \cup [fn : {"database_set"}, id : {0}, db : DbNames]

EsqlRec ==
  [current : Currents, queue : Seq(Call), curId : Ids \cup {0}, curData : Ids \cup {NoData},
   connected : BOOLEAN,
   fdh : Handlers,      \* the handler in e->fdh
   stray : Handlers,    \* a handler ecore still has and e->fdh no longer names
   job : BOOLEAN,       \* fd_job
   timeout : BOOLEAN,   \* timeout_timer
   rtimers : Nat,       \* reconnect timers running, the one in e and lost ones
   m : MYSAC]

Points == {"loop", "io", "complete", "next", "error", "down",
           "ready", "result", "failed", "refused"}

\* The points at which control is with the program: the main loop, and the
\* connect and query callbacks.
ProgramPoints == {"loop", "ready", "result", "failed", "refused"}

Idle == [at |-> "loop", e |-> 0, hup |-> FALSE, h |-> "fdh"]

TypeOK ==
  /\ esql \in [Conns -> EsqlRec]
  /\ pool \in [connected : BOOLEAN, count : Nat]
  /\ database \in DbNames \cup {NoDb}
  /\ reconnect \in {"never", "on", "off"}
  /\ lastId \in Ids \cup {0}
  /\ hash \in [Ids -> Ids \cup {NoData}]
  /\ callbacks \subseteq Ids
  /\ results \in [queued : Nat, kept : Nat]
  /\ run \in [at : Points, e : Conns, hup : BOOLEAN, h : {"fdh", "stray"}]
  /\ budget \in [BudgetKinds -> Nat]
  /\ answers \in [Ids -> Nat]
  /\ reported \subseteq Ids
  /\ dropped \subseteq Ids
  /\ issuedFor \in [Ids -> DbNames \cup {NoDb}]
  /\ ran \subseteq Ids \X (DbNames \cup {NoDb})
  /\ told \in [what : {"nothing", "connect", "disconnect"}, again : BOOLEAN]
  /\ asked \in DbNames \cup {NoDb}

NewEsql == [current |-> "none", queue |-> <<>>, curId |-> 0, curData |-> NoData,
            connected |-> FALSE, fdh |-> "none", stray |-> "none", job |-> FALSE,
            timeout |-> FALSE, rtimers |-> 0, m |-> Fresh]

Init ==
  /\ esql = [e \in Conns |-> NewEsql]
  /\ pool = [connected |-> FALSE, count |-> 0]
  /\ database = NoDb
  /\ reconnect = "never"
  /\ lastId = 0
  /\ hash = [id \in Ids |-> NoData]
  /\ callbacks = {}
  /\ results = [queued |-> 0, kept |-> 0]
  /\ run = Idle
  /\ budget = Budget
  /\ answers = [id \in Ids |-> 0]
  /\ reported = {}
  /\ dropped = {}
  /\ issuedFor = [id \in Ids |-> NoDb]
  /\ ran = {}
  /\ told = [what |-> "nothing", again |-> FALSE]
  /\ asked = NoDb

----------------------------------------------------------------------------
(* Helpers *)

Can(kind) == budget[kind] > 0
Spend(kind) == budget' = [budget EXCEPT ![kind] = @ - 1]

\* The queries that have had their outcome.
Resolved == {id \in Ids : answers[id] > 0} \cup reported \cup dropped

\* The program is told a connection state: by its event, or for CONNECT by the
\* connect callback that takes the event's place.
Announced(what) == [what |-> what, again |-> told.what = what]

FirstOf(S) == CHOOSE e \in S : \A f \in S : e <= f

\* esql_isconnected of the object the program holds.
IsConnected == IF Pooled THEN pool.connected ELSE esql[0].connected

OffersQuery(s) == s.queue # <<>> /\ Head(s.queue).fn = "query"

\* eina_list_append on the three lists.
EnqueuedFirst(s, call) == [s EXCEPT !.queue = <<call>> \o @]    \* mutant: prepends
Enqueued(s, call) == [s EXCEPT !.queue = Append(@, call)]

\* An object whose esql_query sent the query itself: io will run from a job.
StartedNoJob(s, id) ==                                           \* mutant: no job
  [s EXCEPT !.m = SetQuery(@), !.current = "query", !.curId = id, !.curData = DataOf(id)]
Started(s, id) ==
  [s EXCEPT !.m = SetQuery(@), !.current = "query", !.curId = id, !.curData = DataOf(id),
            !.job = TRUE]

\* An object whose esql_next took query id off its queue.
TakenNotPopped(s, id) ==                                         \* mutant: not popped
  [s EXCEPT !.current = "query", !.curId = id, !.curData = hash[id]]
TakenStaleData(s, id) ==                                         \* mutant: cur_data kept
  [s EXCEPT !.current = "query", !.curId = id, !.queue = Tail(@)]
Taken(s, id) ==
  [s EXCEPT !.current = "query", !.curId = id, !.curData = hash[id], !.queue = Tail(@)]

\* An object without a call.
FinishedNotReset(s) == s                                         \* mutant: current kept
Finished(s) == [s EXCEPT !.current = "none"]

\* ecore_main_fd_handler_active_set of handler h, if it is still there.
ActiveOffOnly(s, h, state) ==                                    \* mutant: never armed again
  IF h = "fdh" THEN [s EXCEPT !.fdh = IF @ = "none" THEN "none" ELSE "off"] ELSE [s EXCEPT !.stray = IF @ = "none" THEN "none" ELSE "off"]
Active(s, h, state) ==
  IF h = "fdh" THEN [s EXCEPT !.fdh = IF @ = "none" THEN "none" ELSE state]
  ELSE [s EXCEPT !.stray = IF @ = "none" THEN "none" ELSE state]
HandlerOf(s, h) == IF h = "fdh" THEN s.fdh ELSE s.stray

\* esql_disconnect of one object: backend.disconnect, the handler deleted,
\* connected cleared.  The call under way, the queue, the job and the timers stay.
ClosedIdle(s) ==                                                 \* mutant: forgets the call
  [s EXCEPT !.m = Fresh, !.fdh = "none", !.stray = "none", !.connected = FALSE, !.current = "none"]
ClosedLoggedIn(s) ==                                             \* mutant: no backend.disconnect
  [s EXCEPT !.fdh = "none", !.stray = "none", !.connected = FALSE]
Closed(s) == [s EXCEPT !.m = Fresh, !.fdh = "none", !.stray = "none", !.connected = FALSE]

\* What esql_disconnect of the members in S does to the pool, and whether the
\* DISCONNECT event is emitted.
PoolWithoutAll(S) ==                                             \* mutant: counts them all
  IF Pooled THEN [pool EXCEPT !.count = @ - Cardinality(S)] ELSE pool
PoolWithout(S) ==
  IF Pooled THEN [pool EXCEPT !.count = @ - Cardinality({e \in S : esql[e].connected})] ELSE pool
TellsPoolOnly(S) ==                                              \* mutant: members only
  Pooled /\ (\E e \in S : esql[e].connected) /\ PoolWithout(S).count = 0
TellsBefore(S) ==                                                \* mutant: asked before the decrement
  /\ \E e \in S : esql[e].connected
  /\ Pooled => pool.count = 0
TellsDisconnect(S) ==
  /\ \E e \in S : esql[e].connected
  /\ Pooled => PoolWithout(S).count = 0

\* Deleting a handler in the middle of its dispatch loses its error flag.
HupAfterClosing(S) == run.hup /\ run.e \notin S

\* A second handler on a descriptor ecore already watches is refused, which
\* leaves e->fdh NULL and the first handler registered.
WithHandlerTwice(s, state) ==                                    \* mutant: both are kept
  [s EXCEPT !.fdh = state, !.stray = IF s.fdh # "none" THEN s.fdh ELSE s.stray]
WithHandler(s, state) ==
  IF s.fdh = "none" /\ s.stray = "none" THEN [s EXCEPT !.fdh = state]
  ELSE [s EXCEPT !.fdh = "none", !.stray = IF s.fdh # "none" THEN s.fdh ELSE s.stray]

\* backend.connect followed by the new handler, in esql_connect and in
\* esql_reconnect_handler.
Dialled(s) ==
  {[WithHandler([s EXCEPT !.m = m], "armed") EXCEPT !.current = "init"] : m \in ConnectWaiting(s.m)}
    \cup
  {[WithHandler([s EXCEPT !.m = m], "off") EXCEPT !.current = "init"] : m \in ConnectDone(s.m)}
NotDialled(s) == {[s EXCEPT !.m = m] : m \in ConnectFailing(s.m)}

\* esql_database_set on one object: at once if it is idle, else queued.
DatabaseSwitchedAtOnce(s, d) ==                                  \* mutant: busy or not
  IF s.connected
  THEN [s EXCEPT !.m = SetDatabase(@, d), !.current = "database_set"]
  ELSE Enqueued(s, [fn |-> "database_set", id |-> 0, db |-> d])
DatabaseSwitched(s, d) ==
  IF s.current = "none" /\ s.connected
  THEN [s EXCEPT !.m = SetDatabase(@, d), !.current = "database_set"]
  ELSE Enqueued(s, [fn |-> "database_set", id |-> 0, db |-> d])

----------------------------------------------------------------------------
(* The program's calls *)

ProgramTurn == run.at \in ProgramPoints

\* esql_connect, esql_pool_connect: every object that is not connected dials.
Connect ==
  /\ ProgramTurn /\ Can("connect")
  /\ \E e \in Conns : ~esql[e].connected
  /\ LET ready(e) == [esql[e] EXCEPT !.m = Setup(@)]
         dialled(e) == IF esql[e].connected THEN {esql[e]}
                       ELSE Dialled(ready(e)) \cup NotDialled(ready(e))
     IN \E next \in [Conns -> UNION {dialled(e) : e \in Conns}] :
          /\ \A e \in Conns : next[e] \in dialled(e)
          /\ esql' = next
  /\ Spend("connect")
  /\ UNCHANGED <<pool, database, reconnect, lastId, hash, callbacks, results, run, history>>

\* esql_disconnect, esql_pool_disconnect: a pool closes its connected members.
Disconnect ==
  LET S == IF Pooled THEN {e \in Conns : esql[e].connected} ELSE Conns
  IN /\ ProgramTurn /\ Can("disconnect")
     /\ esql' = [e \in Conns |-> IF e \in S THEN Closed(esql[e]) ELSE esql[e]]
     /\ pool' = [PoolWithout(S) EXCEPT !.connected = FALSE]
     /\ run' = [run EXCEPT !.hup = HupAfterClosing(S)]
     /\ told' = IF TellsDisconnect(S) THEN Announced("disconnect") ELSE told
     /\ Spend("disconnect")
     /\ UNCHANGED <<database, reconnect, lastId, hash, callbacks, results, outcomes, asked>>

\* esql_database_set, esql_pool_database_set.
DatabaseSet(d) ==
  /\ ProgramTurn /\ Can("database")
  /\ database' = d
  /\ asked' = d
  /\ esql' = [e \in Conns |-> DatabaseSwitched(esql[e], d)]
  /\ Spend("database")
  /\ UNCHANGED <<pool, reconnect, lastId, hash, callbacks, results, run, outcomes, told>>

\* esql_connect_timeout_set, esql_pool_connect_timeout_set; on: a value above 0.
TimeoutSet(on) ==
  /\ ProgramTurn /\ Can("timeout")
  /\ esql' = [e \in Conns |-> [esql[e] EXCEPT !.timeout = on]]
  /\ Spend("timeout")
  /\ UNCHANGED <<pool, database, reconnect, lastId, hash, callbacks, results, run, history>>

\* esql_reconnect_set, esql_pool_reconnect_set: timers that run go on running.
ReconnectSet(enable) ==
  /\ ProgramTurn /\ Can("reconnect")
  /\ reconnect' = IF enable THEN "on" ELSE "off"
  /\ Spend("reconnect")
  /\ UNCHANGED <<esql, pool, database, lastId, hash, callbacks, results, run, history>>

\* esql_query_callback_set, for an identifier a query call returned and whose
\* query has had no outcome (the program's side of the contract).
QueryCallbackSet(id) ==
  /\ ProgramTurn /\ Can("callback")
  /\ id <= lastId /\ id \notin callbacks
  /\ id \notin Resolved
  /\ callbacks' = callbacks \cup {id}
  /\ Spend("callback")
  /\ UNCHANGED <<esql, pool, database, reconnect, lastId, hash, results, run, history>>

\* esql_pool_idle_find_: the first member without a call, else the one whose
\* query is oldest.  Query times are not modelled: any busy member may be it.
Picks(t) ==
  LET free == {e \in Conns : esql[e].current = "none"}
  IN free # {} => t = FirstOf(free)

\* The checks esql_query makes before it takes an identifier.
Queryable(t) == ProgramTurn /\ IsConnected /\ Picks(t) /\ esql[t].connected

Issue(t, s) ==
  /\ lastId < MaxId
  /\ lastId' = lastId + 1
  /\ esql' = [esql EXCEPT ![t] = s]
  /\ issuedFor' = [issuedFor EXCEPT ![lastId + 1] = asked]
  /\ UNCHANGED <<pool, database, reconnect, callbacks, results, run, budget,
                 answers, reported, dropped, ran, told, asked>>

\* esql_query on an idle object: the query goes to the backend at once, and a
\* job will run the first io.
QueryStart(t) ==
  LET id == lastId + 1
  IN /\ Queryable(t)
     /\ esql[t].current = "none" /\ ~esql[t].m.err
     /\ Issue(t, Started(esql[t], id))
     /\ UNCHANGED hash

\* esql_query on a busy object: the query is queued, its data kept by identifier.
QueryQueue(t) ==
  LET id == lastId + 1
  IN /\ Queryable(t)
     /\ esql[t].current # "none"
     /\ Issue(t, Enqueued(esql[t], [fn |-> "query", id |-> id, db |-> NoDb]))
     /\ hash' = [hash EXCEPT ![id] = DataOf(id)]

\* esql_query on an idle object whose backend reports an error after
\* backend.query, which is either an error it still holds or a statement
\* longer than its buffer: the identifier is given back, 0 is returned.
QueryRefused(t) ==
  /\ Queryable(t)
  /\ esql[t].current = "none"
  /\ \/ esql[t].m.err /\ esql' = [esql EXCEPT ![t].m = SetQuery(@)] /\ UNCHANGED budget
     \/ Can("fault") /\ esql' = [esql EXCEPT ![t].m = QueryTooLong(@)] /\ Spend("fault")
  /\ UNCHANGED <<pool, database, reconnect, lastId, hash, callbacks, results, run, history>>

Program ==
  \/ Connect \/ Disconnect
  \/ \E on \in BOOLEAN : TimeoutSet(on) \/ ReconnectSet(on)
  \/ \E d \in DbNames : DatabaseSet(d)
  \/ \E id \in Ids : QueryCallbackSet(id)
  \/ \E t \in Conns : QueryStart(t) \/ QueryQueue(t) \/ QueryRefused(t)

----------------------------------------------------------------------------
(* The main loop's sources *)

LoopTurn == run.at = "loop"

\* ecore calls esql_connect_handler for a descriptor it waits for, or for one
\* whose socket broke (EPOLLERR, EPOLLHUP), armed or not.
FdReady(e) ==
  \E h \in {"fdh", "stray"}, hup \in BOOLEAN :
    /\ LoopTurn
    /\ HandlerOf(esql[e], h) # "none"
    /\ IF hup THEN Can("fault") /\ Spend("fault")
       ELSE HandlerOf(esql[e], h) = "armed" /\ UNCHANGED budget
    /\ esql' = [esql EXCEPT ![e] = Active(@, h, "off")]
    /\ run' = [at |-> "io", e |-> e, hup |-> hup, h |-> h]
    /\ UNCHANGED <<pool, database, reconnect, lastId, hash, callbacks, results, history>>

\* esql_fd_handler, the job esql_query added.
RunJob(e) ==
  /\ LoopTurn
  /\ esql[e].job
  /\ esql' = [esql EXCEPT ![e] = Active([@ EXCEPT !.job = FALSE], "fdh", "off")]
  /\ run' = [at |-> "io", e |-> e, hup |-> FALSE, h |-> "fdh"]
  /\ UNCHANGED <<pool, database, reconnect, lastId, hash, callbacks, results, budget, history>>

CloseAndRetryConnected(e, s) ==                                  \* mutant: only after a connection
  /\ esql' = [esql EXCEPT ![e] =
                [Closed(s) EXCEPT !.rtimers = IF reconnect = "on" /\ s.connected THEN @ + 1 ELSE @]]
  /\ pool' = PoolWithout({e})
  /\ told' = IF TellsDisconnect({e}) THEN Announced("disconnect") ELSE told
  /\ UNCHANGED <<database, reconnect, lastId, hash, callbacks, results, budget, outcomes, asked>>

\* The tail esql_event_error and esql_timeout_cb share: esql_disconnect(e),
\* then a reconnect timer over whatever e->reconnect_timer named.
CloseAndRetry(e, s) ==
  /\ esql' = [esql EXCEPT ![e] =
                [Closed(s) EXCEPT !.rtimers = IF reconnect = "on" THEN @ + 1 ELSE @]]
  /\ pool' = PoolWithout({e})
  /\ told' = IF TellsDisconnect({e}) THEN Announced("disconnect") ELSE told
  /\ UNCHANGED <<database, reconnect, lastId, hash, callbacks, results, budget, outcomes, asked>>

\* esql_timeout_cb.
TimeoutFires(e) ==
  /\ LoopTurn
  /\ esql[e].timeout
  /\ CloseAndRetry(e, [esql[e] EXCEPT !.timeout = FALSE])
  /\ UNCHANGED run

\* esql_reconnect_handler.
ReconnectFires(e) ==
  LET s == [esql[e] EXCEPT !.rtimers = @ - 1]
  IN /\ LoopTurn
     /\ esql[e].rtimers > 0
     /\ \/ \E r \in Dialled(s) :
             /\ esql' = [esql EXCEPT ![e] = IF database = NoDb THEN r ELSE DatabaseSwitched(r, database)]
             /\ UNCHANGED told
        \/ \E r \in NotDialled(s) : esql' = [esql EXCEPT ![e] = r] /\ told' = Announced("disconnect")
     /\ UNCHANGED <<pool, database, reconnect, lastId, hash, callbacks, results, run, budget, outcomes, asked>>

\* The library returns its reference of a result.  Unless the program has taken
\* one, the result is freed, which makes the backend of the first member,
\* whoever ran the query, forget its error.
FreesError == esql' = [esql EXCEPT ![0].m = ClearError(@)]
ResultReturned(rest) ==
  \/ FreesError /\ results' = rest /\ UNCHANGED budget
  \/ /\ Can("keep") /\ Spend("keep")
     /\ results' = [rest EXCEPT !.kept = @ + 1]
     /\ UNCHANGED esql

\* The program returns the last reference of a result it has kept.
ResultUnref ==
  /\ ProgramTurn
  /\ results.kept > 0
  /\ results' = [results EXCEPT !.kept = @ - 1]
  /\ FreesError
  /\ UNCHANGED <<pool, database, reconnect, lastId, hash, callbacks, run, budget, history>>

ResultEventAgain ==                                              \* mutant: freed twice
  /\ LoopTurn
  /\ results' = [results EXCEPT !.queued = @ - 1]
  /\ FreesError
  /\ UNCHANGED <<pool, database, reconnect, lastId, hash, callbacks, run, budget, history>>

\* The RESULT event has been handled.
ResultEvent ==
  /\ LoopTurn
  /\ results.queued > 0
  /\ ResultReturned([results EXCEPT !.queued = @ - 1])
  /\ UNCHANGED <<pool, database, reconnect, lastId, hash, callbacks, run, history>>

----------------------------------------------------------------------------
(* The chain of handlers run.e goes through *)

Goto(point) == run' = [run EXCEPT !.at = point]
At(point, e) == run.at = point /\ run.e = e

\* esql_connect_handler when io wants more: the handler it was called with is
\* armed again, if there is one.
IoWait(e) ==
  /\ At("io", e)
  /\ \E m \in Waiting(esql[e].m) :
       esql' = [esql EXCEPT ![e] = Active([@ EXCEPT !.m = m], run.h, "armed")]
  /\ run' = Idle
  /\ UNCHANGED <<pool, database, reconnect, lastId, hash, callbacks, results, budget, history>>

\* esql_connect_handler when io is finished.
IoDone(e) ==
  /\ At("io", e)
  /\ \E m \in Done(esql[e].m) : esql' = [esql EXCEPT ![e].m = m]
  /\ Goto("complete")
  /\ UNCHANGED <<pool, database, reconnect, lastId, hash, callbacks, results, budget, history>>

\* esql_connect_handler when io fails.
IoFail(e) ==
  /\ At("io", e)
  /\ \E m \in Failing(esql[e].m) : esql' = [esql EXCEPT ![e].m = m]
  /\ IF Doomed(esql[e].m) THEN UNCHANGED budget ELSE Can("fault") /\ Spend("fault")
  /\ Goto("error")
  /\ UNCHANGED <<pool, database, reconnect, lastId, hash, callbacks, results, history>>

\* e_connected once one more member is connected.
CountedUntilConnected == IF pool.connected THEN pool.count ELSE pool.count + 1   \* mutant
Counted == pool.count + 1

\* esql_call_complete of the handshake.  A pool is connected, and says so,
\* when the last of its members is.
CompleteInit(e) ==
  LET count == Counted
      announce == ~Pooled \/ (~pool.connected /\ count = Size)
  IN /\ At("complete", e)
     /\ esql[e].current = "init"
     /\ esql' = [esql EXCEPT ![e].connected = TRUE]
     /\ pool' = IF Pooled THEN [connected |-> pool.connected \/ announce, count |-> count] ELSE pool
     /\ told' = IF announce THEN Announced("connect") ELSE told
     /\ Goto(IF announce /\ HasConnectCb THEN "ready" ELSE "next")
     /\ UNCHANGED <<database, reconnect, lastId, hash, callbacks, results, budget, outcomes, asked>>

\* esql_call_complete of a query: its callback runs, or a RESULT event is queued.
CompleteQuery(e) ==
  LET id == esql[e].curId
  IN /\ At("complete", e)
     /\ esql[e].current = "query"
     /\ answers' = [answers EXCEPT ![id] = @ + 1]
     /\ ran' = ran \cup {<<id, esql[e].m.db>>}
     /\ IF id \in callbacks THEN Goto("result") /\ UNCHANGED results
        ELSE Goto("next") /\ results' = [results EXCEPT !.queued = @ + 1]
     /\ UNCHANGED <<esql, pool, database, reconnect, lastId, hash, callbacks, budget,
                    reported, dropped, issuedFor, told, asked>>

\* esql_call_complete of a database switch, or with nothing under way.
CompleteOther(e) ==
  /\ At("complete", e)
  /\ esql[e].current \in {"database_set", "none"}
  /\ Goto("next")
  /\ UNCHANGED <<esql, pool, database, reconnect, lastId, hash, callbacks, results, budget, history>>

\* esql_pool_rebalance for a member with an empty queue: it takes the call at
\* the head of the first queue headed by a query.
RebalancedByCopy(e) ==                                           \* mutant: not removed
  LET donors == {d \in Conns : OffersQuery(esql[d])}
  IN IF esql[e].queue = <<>> /\ Pooled /\ donors # {}
     THEN [esql EXCEPT ![e].queue = <<Head(esql[FirstOf(donors)].queue)>>]
     ELSE esql
Rebalanced(e) ==
  LET donors == {d \in Conns : OffersQuery(esql[d])}
      d == FirstOf(donors)
  IN IF esql[e].queue = <<>> /\ Pooled /\ donors # {}
     THEN [esql EXCEPT ![d].queue = Tail(@), ![e].queue = <<Head(esql[d].queue)>>]
     ELSE esql

\* esql_next with nothing to run.
NextIdle(e) ==
  /\ At("next", e)
  /\ Rebalanced(e)[e].queue = <<>>
  /\ esql' = [esql EXCEPT ![e] = Finished(@)]
  /\ run' = Idle
  /\ UNCHANGED <<pool, database, reconnect, lastId, hash, callbacks, results, budget, history>>

\* esql_next with a database switch at the head: esql_database_set is called
\* with the object idle, then the head is popped.  While the object is not
\* connected that call only queues the switch again.  The call also makes the
\* switch's name e->database, which a plain object reconnects with.  Then
\* esql_connect_handler runs with e->fdh.
NextDatabase(e) ==
  LET s == esql[e]
      call == Head(s.queue)
      switched == DatabaseSwitched(Finished(s), call.db)
  IN /\ At("next", e)
     /\ s.queue # <<>> /\ call.fn = "database_set"
     /\ esql' = [esql EXCEPT ![e] = Active([switched EXCEPT !.queue = Tail(@)], "fdh", "off")]
     /\ database' = IF Pooled THEN database ELSE call.db
     /\ run' = [run EXCEPT !.at = "io", !.h = "fdh"]
     /\ UNCHANGED <<pool, reconnect, lastId, hash, callbacks, results, budget, history>>

\* esql_next with a query at the head: it goes to the backend with the data
\* kept for it, and esql_connect_handler runs with e->fdh; an error there is
\* reported as if io had failed.
NextQuery(e) ==
  LET all == Rebalanced(e)
      id == Head(all[e].queue).id
      taken(m) == Taken([all[e] EXCEPT !.m = m], id)
  IN /\ At("next", e)
     /\ OffersQuery(all[e])
     /\ hash' = [hash EXCEPT ![id] = NoData]
     /\ \/ /\ ~all[e].m.err
           /\ esql' = [all EXCEPT ![e] = Active(taken(SetQuery(all[e].m)), "fdh", "off")]
           /\ run' = [run EXCEPT !.at = "io", !.h = "fdh"]
           /\ UNCHANGED budget
        \/ /\ all[e].m.err
           /\ esql' = [all EXCEPT ![e] = taken(SetQuery(all[e].m))]
           /\ run' = [run EXCEPT !.at = "error", !.h = "fdh"]
           /\ UNCHANGED budget
        \/ /\ Can("fault") /\ Spend("fault")
           /\ esql' = [all EXCEPT ![e] = taken(QueryTooLong(all[e].m))]
           /\ run' = [run EXCEPT !.at = "error", !.h = "fdh"]
     /\ UNCHANGED <<pool, database, reconnect, lastId, callbacks, results, history>>

\* Where esql_event_error goes once a failed query has been reported: an object
\* whose descriptor has no error flag carries on with the next call.
AfterFailure == IF run.hup /\ run.h = "fdh" /\ esql[run.e].fdh # "none" THEN "down" ELSE "next"

\* esql_event_error of a query: its callback gets the error, or nobody does.
ErrorQuery(e) ==
  LET id == esql[e].curId
  IN /\ At("error", e)
     /\ esql[e].current = "query"
     /\ IF id \in callbacks
        THEN answers' = [answers EXCEPT ![id] = @ + 1] /\ Goto("failed") /\ UNCHANGED <<reported, dropped>>
        ELSE /\ Goto(AfterFailure)
             /\ IF id \in Resolved THEN UNCHANGED <<reported, dropped>>
                ELSE IF AfterFailure = "down"
                     THEN reported' = reported \cup {id} /\ UNCHANGED dropped
                     ELSE dropped' = dropped \cup {id} /\ UNCHANGED reported
             /\ UNCHANGED answers
     /\ UNCHANGED <<esql, pool, database, reconnect, lastId, hash, callbacks, results, budget,
                    issuedFor, ran, told, asked>>

\* esql_event_error of anything else: the connect callback runs for it, too,
\* and is not told that this is a failure.
ErrorOther(e) ==
  /\ At("error", e)
  /\ esql[e].current # "query"
  /\ IF HasConnectCb THEN Goto("refused") /\ told' = Announced("connect") ELSE Goto("down") /\ UNCHANGED told
  /\ UNCHANGED <<esql, pool, database, reconnect, lastId, hash, callbacks, results, budget, outcomes, asked>>

\* The rest of esql_event_error: the ERROR event, then disconnect and retry.
Down(e) ==
  /\ At("down", e)
  /\ CloseAndRetry(e, esql[e])
  /\ run' = Idle

\* The connect callback returns.
ConnectCbReturns(e) ==
  /\ \/ At("ready", e) /\ Goto("next")
     \/ At("refused", e) /\ Goto("down")
  /\ UNCHANGED <<esql, pool, database, reconnect, lastId, hash, callbacks, results, budget, history>>

\* A query callback returns: it is forgotten and the reference of its result returned.
QueryCbReturns(e) ==
  /\ \/ At("result", e) /\ Goto("next")
     \/ At("failed", e) /\ Goto(AfterFailure)
  /\ callbacks' = callbacks \ {esql[e].curId}
  /\ ResultReturned(results)
  /\ UNCHANGED <<pool, database, reconnect, lastId, hash, history>>

Io(e) == IoWait(e) \/ IoDone(e) \/ IoFail(e)
Complete(e) == CompleteInit(e) \/ CompleteQuery(e) \/ CompleteOther(e)
NextCall(e) == NextIdle(e) \/ NextDatabase(e) \/ NextQuery(e)
Error(e) == ErrorQuery(e) \/ ErrorOther(e) \/ Down(e)
CbReturns(e) == ConnectCbReturns(e) \/ QueryCbReturns(e)

Chain(e) == Io(e) \/ Complete(e) \/ NextCall(e) \/ Error(e) \/ CbReturns(e)
Sources(e) == FdReady(e) \/ RunJob(e) \/ TimeoutFires(e) \/ ReconnectFires(e)

Next == Program \/ ResultEvent \/ ResultUnref \/ \E e \in Conns : Chain(e) \/ Sources(e)

Spec == Init /\ [][Next]_vars

(***************************************************************************)
(* The program's callbacks return and the chain they interrupt goes on     *)
(* (weak fairness).  Every iteration of the main loop serves all sources   *)
(* that are ready, so that one which becomes ready again and again is      *)
(* served (strong fairness); and a server asked again and again finishes   *)
(* the exchange (strong fairness of IoDone).  Nothing obliges the program  *)
(* to call, or the network to fail.                                        *)
(***************************************************************************)
Fairness ==
  \A e \in Conns : /\ WF_vars(Chain(e))
                   /\ SF_vars(IoDone(e))
                   /\ SF_vars(FdReady(e)) /\ SF_vars(RunJob(e))
                   /\ SF_vars(ReconnectFires(e))

FairSpec == Spec /\ Fairness
=============================================================================
