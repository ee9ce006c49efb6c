----------------------------- MODULE EsqlSqlite -----------------------------
(***************************************************************************)
(* A plain object over the SQLite backend                                  *)
(* (src/modules/sqlite/esql_sqlite_backend.c).  Opening the file and       *)
(* running a statement are done by ecore worker threads, which write the   *)
(* object while the main loop goes on; what a worker leaves behind is      *)
(* handled by the main loop, in the order in which the workers ended.      *)
(*                                                                         *)
(* The main thread runs the event loop of Esql: `run' names what it does   *)
(* next, the program may call at the points named in ProgramPoints.  There *)
(* is no descriptor (fd_get returns -1), so e->fdh is NULL throughout.     *)
(***************************************************************************)
EXTENDS Naturals, Sequences, FiniteSets

CONSTANTS
  MaxId,          \* bound on accepted queries
  MaxHandles,     \* bound on database handles open at once
  HasConnectCb,   \* whether a connect callback is set
  Budget          \* bounds on what the program and SQLite may still do

Ids == 1 .. MaxId
Handles == 1 .. MaxHandles
None == 0                       \* NULL: no handle, no statement, no query

BudgetKinds == {"fault", "connect", "disconnect", "timeout", "callback"}

ASSUME SqliteAssumption ==
  /\ MaxId \in Nat /\ MaxHandles \in Nat
  /\ HasConnectCb \in BOOLEAN
  /\ Budget \in [BudgetKinds -> Nat]

VARIABLES
  esql,           \* struct Esql and its backend
  handles,        \* SQLite's database handles, with their unfinalised statements
  workers,        \* the worker threads under way, by what they do next
  ended,          \* how the workers ended whose callback has not run yet
  lastId,         \* esql_id
  callbacks,      \* esql_query_callbacks: ids with a callback
  run,            \* what the main thread does next
  budget,
  (* history *)
  outcome,        \* "none", "answer", "error" (told to the callback) or "dropped", by id
  rows,           \* the queries whose rows an answer held, by id
  dialler,        \* who dialled last: "nobody", the "program" or a reconnect "timer"
  crossed         \* whether a dial was ever cut, or made by an object that is connected, has a
                  \* worker or has queries waiting

vars == <<esql, handles, workers, ended, lastId, callbacks, run, budget, outcome, rows, dialler, crossed>>
history == <<outcome, rows, dialler, crossed>>

----------------------------------------------------------------------------
(* The shape of the state *)

EsqlRec ==
  [connected : BOOLEAN, current : {"none", "init", "query"}, curId : Ids \cup {None},
   queue : Seq(Ids),
   job : BOOLEAN,                    \* fd_job
   reconnect : BOOLEAN,              \* as the program set it before it connected
   timeout : BOOLEAN,                \* timeout_timer
   rtimers : Nat,                    \* reconnect timers
   db : Handles \cup {None},         \* backend.db
   stmt : Ids \cup {None},           \* backend.stmt, named by the query it was prepared for
   thread : BOOLEAN,                 \* backend.thread is not NULL
   conn : {"none", "named"},         \* backend.conn_str
   res : [made : BOOLEAN, rows : SUBSET Ids]]   \* e->res, and whose rows it holds

\* What sqlite3_open_v2 opened: the file the program named, or for a NULL name
\* a database of its own that is deleted when it is closed.
Files == {"none", "named", "private"}

ProgramPoints == {"loop", "ready", "result", "failed", "refused"}
Points == ProgramPoints \cup {"complete", "next", "error", "down", "closing", "retry"}

\* The types of the variables.
TypeOK ==
  /\ esql \in EsqlRec
  /\ handles \in [Handles -> [file : Files, open : SUBSET Ids]]
  /\ workers \in [opening : Nat, opened : Nat, query : Nat]
  /\ ended \in Seq({"end", "cancel"})
  /\ lastId \in Ids \cup {0}
  /\ callbacks \subseteq Ids
  /\ run \in [at : Points, back : Points]
  /\ budget \in [BudgetKinds -> Nat]
  /\ outcome \in [Ids -> {"none", "answer", "error", "dropped"}]
  /\ rows \in [Ids -> SUBSET Ids]
  /\ dialler \in {"nobody", "program", "timer"}
  /\ crossed \in BOOLEAN

NoHandle == [file |-> "none", open |-> {}]
NoRes == [made |-> FALSE, rows |-> {}]

Init ==
  /\ \E reconnect \in BOOLEAN :
       esql = [connected |-> FALSE, current |-> "none", curId |-> None, queue |-> <<>>,
               job |-> FALSE, reconnect |-> reconnect, timeout |-> FALSE, rtimers |-> 0,
               db |-> None, stmt |-> None, thread |-> FALSE, conn |-> "none", res |-> NoRes]
  /\ handles = [h \in Handles |-> NoHandle]
  /\ workers = [opening |-> 0, opened |-> 0, query |-> 0]
  /\ ended = <<>>
  /\ lastId = 0
  /\ callbacks = {}
  /\ run = [at |-> "loop", back |-> "loop"]
  /\ budget = Budget
  /\ outcome = [id \in Ids |-> "none"]
  /\ rows = [id \in Ids |-> {}]
  /\ dialler = "nobody"
  /\ crossed = FALSE

----------------------------------------------------------------------------
(* Helpers *)

Can(kind) == budget[kind] > 0
Spend(kind) == budget' = [budget EXCEPT ![kind] = @ - 1]
Goto(point) == run' = [run EXCEPT !.at = point]
At(point) == run.at = point

Dialling == workers.opening + workers.opened > 0 \/ (ended # <<>> /\ esql.current # "query")
Working == Dialling \/ workers.query > 0 \/ ended # <<>>

\* ecore_thread_run with the connect callback: a worker that will open the file.
DialStarts(who) ==
  /\ workers' = [workers EXCEPT !.opening = @ + 1]
  /\ dialler' = who
  /\ crossed' = (crossed \/ Working \/ esql.connected \/ esql.queue # <<>>)

\* sqlite3_prepare_v2 on backend.db.  It fails for a statement that does not
\* compile and for a NULL handle, and leaves no statement then.
CanPrepare == esql.db # None
Prepared(s, id) == [s EXCEPT !.stmt = id]
NotPrepared(s) == [s EXCEPT !.stmt = None]
HoldsStatement(id) == handles' = [handles EXCEPT ![esql.db].open = @ \cup {id}]

\* sqlite3_finalize, on whichever handle the statement belongs to.
NotFinalised(id) == handles                                      \* mutant: forgotten
Finalised(id) == [h \in Handles |-> [handles[h] EXCEPT !.open = @ \ {id}]]

\* esql_sqlite_io: one worker at a time, or an error.
IoRefuses == esql.thread
WithWorker(s) == [s EXCEPT !.thread = TRUE]
IoStarts == workers' = [workers EXCEPT !.query = @ + 1]

\* An answer empties e->res, and so does an error result.
ResKept(s) == s                                                  \* mutant: not emptied
ResGiven(s) == [s EXCEPT !.res = NoRes]

----------------------------------------------------------------------------
(* The program's calls *)

ProgramTurn == run.at \in ProgramPoints

Unnamed(s) == s                                                  \* mutant: no backend.setup
Named(s) == [s EXCEPT !.conn = "named"]

\* esql_connect: refused only while the object is connected.
Connect ==
  /\ ProgramTurn /\ Can("connect")
  /\ ~esql.connected
  /\ esql' = WithWorker(Named(esql))
  /\ DialStarts("program")
  /\ Spend("connect")
  /\ UNCHANGED <<handles, ended, lastId, callbacks, run, outcome, rows>>

\* esql_disconnect, which the program, esql_event_error and esql_timeout_cb
\* call: without a handle it does nothing at all, else it closes the handle.
Close(back) ==
  /\ run' = IF esql.db = None THEN [at |-> back, back |-> back] ELSE [at |-> "closing", back |-> back]
  /\ crossed' = (crossed \/ Dialling)

Disconnect ==
  /\ ProgramTurn /\ Can("disconnect")
  /\ Close(run.at)
  /\ Spend("disconnect")
  /\ UNCHANGED <<esql, handles, workers, ended, lastId, callbacks, outcome, rows, dialler>>

\* esql_connect_timeout_set.
TimeoutSet ==
  /\ ProgramTurn /\ Can("timeout")
  /\ esql' = [esql EXCEPT !.timeout = TRUE]
  /\ Spend("timeout")
  /\ UNCHANGED <<handles, workers, ended, lastId, callbacks, run, history>>

\* esql_query_callback_set.
QueryCallbackSet(id) ==
  /\ ProgramTurn /\ Can("callback")
  /\ id <= lastId /\ id \notin callbacks /\ outcome[id] = "none"
  /\ callbacks' = callbacks \cup {id}
  /\ Spend("callback")
  /\ UNCHANGED <<esql, handles, workers, ended, lastId, run, history>>

Queryable == ProgramTurn /\ esql.connected /\ esql.db # None
NeverBusy == FALSE                                               \* mutant: not asked
Busy == esql.current # "none"
WithJob(s) == [s EXCEPT !.job = TRUE]

Accept(s) ==
  /\ lastId < MaxId
  /\ lastId' = lastId + 1
  /\ esql' = s
  /\ UNCHANGED <<workers, ended, callbacks, run, budget, history>>

\* esql_query on an idle object: the statement is compiled at once, a job will
\* run it.
QueryStart ==
  LET id == lastId + 1
  IN /\ Queryable /\ ~Busy
     /\ Accept(WithJob([Prepared(esql, id) EXCEPT !.current = "query", !.curId = id]))
     /\ HoldsStatement(id)

\* The same with a statement that does not compile: 0 is returned.
QueryRefused ==
  /\ Queryable /\ ~Busy
  /\ Can("fault") /\ Spend("fault")
  /\ esql' = NotPrepared(esql)
  /\ UNCHANGED <<handles, workers, ended, lastId, callbacks, run, history>>

\* esql_query on a busy object.
QueuedFirst(s, id) == [s EXCEPT !.queue = <<id>> \o @]           \* mutant: prepends
Queued(s, id) == [s EXCEPT !.queue = Append(@, id)]
QueryQueue ==
  /\ Queryable /\ Busy
  /\ Accept(Queued(esql, lastId + 1))
  /\ UNCHANGED handles

Program ==
  \/ Connect \/ Disconnect \/ TimeoutSet
  \/ \E id \in Ids : QueryCallbackSet(id)
  \/ QueryStart \/ QueryRefused \/ QueryQueue

----------------------------------------------------------------------------
(* The worker threads *)

FreeHandle == CHOOSE h \in Handles : handles[h].file = "none"

\* esql_sqlite_connect_cb: sqlite3_open_v2 stores the handle in the object,
\* whether it succeeds or not.  The worker reads conn_str when it runs.
Opened(h) ==
  handles' = [handles EXCEPT ![h] =
                [file |-> IF esql.conn = "named" THEN "named" ELSE "private", open |-> {}]]

WorkerOpens ==
  /\ workers.opening > 0
  /\ \E h \in Handles : handles[h].file = "none"
  /\ Opened(FreeHandle)
  /\ esql' = [esql EXCEPT !.db = FreeHandle]
  /\ workers' = [workers EXCEPT !.opening = @ - 1, !.opened = @ + 1]
  /\ UNCHANGED <<ended, lastId, callbacks, run, budget, history>>

\* Only then does it say what it has been doing ...
WorkerSaysInit ==
  /\ workers.opened > 0
  /\ esql' = [esql EXCEPT !.current = "init"]
  /\ workers' = [workers EXCEPT !.opened = @ - 1]
  /\ ended' = Append(ended, "end")
  /\ UNCHANGED <<handles, lastId, callbacks, run, budget, history>>

\* ... or, when the file could not be opened, cancel itself; the handle stays.
WorkerCannotOpen ==
  /\ workers.opened > 0
  /\ Can("fault") /\ Spend("fault")
  /\ esql' = [esql EXCEPT !.thread = FALSE]
  /\ workers' = [workers EXCEPT !.opened = @ - 1]
  /\ ended' = Append(ended, "cancel")
  /\ UNCHANGED <<handles, lastId, callbacks, run, history>>

\* esql_sqlite_query_cb, one turn of its loop: a row is added to e->res ...
WorkerRow ==
  /\ workers.query > 0
  /\ esql.stmt # None
  /\ esql' = [esql EXCEPT !.res = [made |-> TRUE, rows |-> @.rows \cup {esql.stmt}]]
  /\ UNCHANGED <<handles, workers, ended, lastId, callbacks, run, budget, history>>

WorkerEnds(how) ==
  /\ workers' = [workers EXCEPT !.query = @ - 1]
  /\ ended' = Append(ended, how)

\* ... or there are no more rows: the worker finalises the statement ...
WorkerDone ==
  /\ workers.query > 0
  /\ esql.stmt # None
  /\ handles' = Finalised(esql.stmt)
  /\ esql' = [esql EXCEPT !.stmt = None, !.res.made = TRUE]
  /\ WorkerEnds("end")
  /\ UNCHANGED <<lastId, callbacks, run, budget, history>>

\* ... or the statement fails, is busy a thousand times or finds no memory for
\* a result: the rows it has added stay ...
WorkerFails ==
  /\ workers.query > 0
  /\ esql.stmt # None
  /\ Can("fault") /\ Spend("fault")
  /\ handles' = Finalised(esql.stmt)
  /\ esql' = [esql EXCEPT !.stmt = None]
  /\ WorkerEnds("cancel")
  /\ UNCHANGED <<lastId, callbacks, run, history>>

\* ... or there is no statement any more.
WorkerFindsNone ==
  /\ workers.query > 0
  /\ esql.stmt = None
  /\ WorkerEnds("end")
  /\ UNCHANGED <<esql, handles, lastId, callbacks, run, budget, history>>

Worker == \/ WorkerOpens \/ WorkerSaysInit \/ WorkerCannotOpen
          \/ WorkerRow \/ WorkerDone \/ WorkerFails \/ WorkerFindsNone

----------------------------------------------------------------------------
(* The main loop's sources *)

\* esql_sqlite_thread_end_cb and esql_sqlite_thread_cancel_cb.
StatementGone == IF esql.stmt = None THEN handles ELSE Finalised(esql.stmt)

WorkerEnded ==
  /\ At("loop")
  /\ ended # <<>>
  /\ ended' = Tail(ended)
  /\ IF Head(ended) = "end"
     THEN /\ handles' = StatementGone
          /\ esql' = [esql EXCEPT !.thread = FALSE, !.stmt = None]
          /\ Goto("complete")
     ELSE /\ esql' = [esql EXCEPT !.thread = FALSE]
          /\ Goto("error")
          /\ UNCHANGED handles
  /\ UNCHANGED <<workers, lastId, callbacks, budget, history>>

\* esql_fd_handler, the job esql_query added.
RunJob ==
  /\ At("loop")
  /\ esql.job
  /\ IF IoRefuses
     THEN esql' = [esql EXCEPT !.job = FALSE] /\ Goto("error") /\ UNCHANGED workers
     ELSE esql' = WithWorker([esql EXCEPT !.job = FALSE]) /\ IoStarts /\ UNCHANGED run
  /\ UNCHANGED <<handles, ended, lastId, callbacks, budget, history>>

\* esql_timeout_cb.
TimeoutFires ==
  /\ At("loop")
  /\ esql.timeout
  /\ esql' = [esql EXCEPT !.timeout = FALSE]
  /\ Close("retry")
  /\ UNCHANGED <<handles, workers, ended, lastId, callbacks, budget, outcome, rows, dialler>>

\* esql_reconnect_handler: the worker is started, conn_str as it is.
ReconnectFires ==
  /\ At("loop")
  /\ esql.rtimers > 0
  /\ esql' = WithWorker([esql EXCEPT !.rtimers = @ - 1])
  /\ DialStarts("timer")
  /\ UNCHANGED <<handles, ended, lastId, callbacks, run, budget, outcome, rows>>

----------------------------------------------------------------------------
(* The chain *)

Disconnected(s) == [s EXCEPT !.db = None, !.conn = "none", !.connected = FALSE]

\* esql_sqlite_disconnect: sqlite3_close fails for as long as a statement of
\* the handle is not finalised, and is called again and again until it does not.
\* The handle is opened with SQLITE_OPEN_NOMUTEX, so a call beside a worker's
\* sqlite3_step races with it; each of the two calls is one step here.
CloseEnds ==
  /\ At("closing")
  /\ handles[esql.db].open = {}
  /\ handles' = [handles EXCEPT ![esql.db] = NoHandle]
  /\ esql' = Disconnected(esql)
  /\ run' = [at |-> run.back, back |-> run.back]
  /\ UNCHANGED <<workers, ended, lastId, callbacks, budget, history>>

\* esql_call_complete of the dial.
CompleteInit ==
  /\ At("complete")
  /\ esql.current = "init"
  /\ esql' = [esql EXCEPT !.connected = TRUE]
  /\ Goto(IF HasConnectCb THEN "ready" ELSE "next")
  /\ UNCHANGED <<handles, workers, ended, lastId, callbacks, budget, history>>

\* esql_call_complete of a query: what e->res holds is its result.
CompleteQuery ==
  LET id == esql.curId
  IN /\ At("complete")
     /\ esql.current = "query"
     /\ outcome' = [outcome EXCEPT ![id] = "answer"]
     /\ rows' = [rows EXCEPT ![id] = esql.res.rows]
     /\ esql' = ResGiven(esql)
     /\ Goto(IF id \in callbacks THEN "result" ELSE "next")
     /\ UNCHANGED <<handles, workers, ended, lastId, callbacks, budget, dialler, crossed>>

CompleteNothing ==
  /\ At("complete")
  /\ esql.current = "none"
  /\ Goto("next")
  /\ UNCHANGED <<esql, handles, workers, ended, lastId, callbacks, budget, history>>

\* esql_next with nothing queued.
NextIdle ==
  /\ At("next")
  /\ esql.queue = <<>>
  /\ esql' = [esql EXCEPT !.current = "none"]
  /\ Goto("loop")
  /\ UNCHANGED <<handles, workers, ended, lastId, callbacks, budget, history>>

\* esql_next takes the query at the head: it is compiled and run, or fails.
Taken == [esql EXCEPT !.current = "query", !.curId = Head(esql.queue), !.queue = Tail(@)]
NextQuery ==
  LET id == Head(esql.queue)
  IN /\ At("next")
     /\ esql.queue # <<>>
     /\ \/ /\ CanPrepare
           /\ HoldsStatement(id)
           /\ IF IoRefuses
              THEN esql' = Prepared(Taken, id) /\ Goto("error") /\ UNCHANGED workers
              ELSE esql' = WithWorker(Prepared(Taken, id)) /\ IoStarts /\ Goto("loop")
           /\ UNCHANGED budget
        \/ /\ IF CanPrepare THEN Can("fault") /\ Spend("fault") ELSE UNCHANGED budget
           /\ esql' = NotPrepared(Taken)
           /\ Goto("error")
           /\ UNCHANGED <<handles, workers>>
     /\ UNCHANGED <<ended, lastId, callbacks, history>>

\* esql_event_error of a query.  With no descriptor to ask about, the object
\* carries on with the next call.
ErrorQuery ==
  LET id == esql.curId
  IN /\ At("error")
     /\ esql.current = "query"
     /\ IF id \in callbacks
        THEN /\ outcome' = [outcome EXCEPT ![id] = "error"]
             /\ esql' = ResGiven(esql)
             /\ Goto("failed")
        ELSE /\ outcome' = [outcome EXCEPT ![id] = IF @ = "none" THEN "dropped" ELSE @]
             /\ Goto("next")
             /\ UNCHANGED esql
     /\ UNCHANGED <<handles, workers, ended, lastId, callbacks, budget, rows, dialler, crossed>>

\* esql_event_error of anything else.
ErrorOther ==
  /\ At("error")
  /\ esql.current # "query"
  /\ Goto(IF HasConnectCb THEN "refused" ELSE "down")
  /\ UNCHANGED <<esql, handles, workers, ended, lastId, callbacks, budget, history>>

\* The ERROR event, then esql_disconnect ...
Down ==
  /\ At("down")
  /\ Close("retry")
  /\ UNCHANGED <<esql, handles, workers, ended, lastId, callbacks, budget, outcome, rows, dialler>>

\* ... and the reconnect timer.
Retry ==
  /\ At("retry")
  /\ esql' = [esql EXCEPT !.rtimers = IF esql.reconnect THEN @ + 1 ELSE @]
  /\ run' = [at |-> "loop", back |-> "loop"]
  /\ UNCHANGED <<handles, workers, ended, lastId, callbacks, budget, history>>

\* The program's callbacks return.
CbReturns ==
  /\ \/ At("ready") /\ Goto("next") /\ UNCHANGED callbacks
     \/ At("refused") /\ Goto("down") /\ UNCHANGED callbacks
     \/ run.at \in {"result", "failed"} /\ Goto("next") /\ callbacks' = callbacks \ {esql.curId}
  /\ UNCHANGED <<esql, handles, workers, ended, lastId, budget, history>>

Chain == \/ CloseEnds \/ CompleteInit \/ CompleteQuery \/ CompleteNothing
         \/ NextIdle \/ NextQuery \/ ErrorQuery \/ ErrorOther \/ Down \/ Retry \/ CbReturns
Sources == WorkerEnded \/ RunJob \/ TimeoutFires \/ ReconnectFires

Next == Program \/ Worker \/ Chain \/ Sources

Spec == Init /\ [][Next]_vars

(***************************************************************************)
(* Worker threads run and end: a statement returns rows finitely often     *)
(* (strong fairness of WorkerDone), whatever the main thread does          *)
(* meanwhile.  The main thread carries on with its chain, and its loop     *)
(* serves the workers that ended, and the jobs.                            *)
(***************************************************************************)
Fairness ==
  /\ WF_vars(Chain)
  /\ SF_vars(WorkerEnded) /\ SF_vars(RunJob)
  /\ WF_vars(WorkerOpens) /\ WF_vars(WorkerSaysInit)
  /\ SF_vars(WorkerDone) /\ WF_vars(WorkerFindsNone)

FairSpec == Spec /\ Fairness
=============================================================================
