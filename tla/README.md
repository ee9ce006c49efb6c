# Esskyuehl in TLA+

Esskyuehl (`esql`) is a C library that gives an ecore program asynchronous
access to SQL servers: a program makes an `Esql` object (or a pool of them),
connects it, sends queries, and is told the outcome by events or callbacks.
This directory holds a TLA+ model of the library, the TLC configurations that
check it on small instances, and TLAPS proofs of what holds for every instance.

Paths below are relative to the repository root unless they name a `.tla`
or `.cfg` file of this directory.

## 1. The system

| component | source | state it keeps | operations |
|---|---|---|---|
| event loop | `src/lib/esql_events.c` | the fd handler, the job, the timers of an object; `current` | `esql_connect_handler`, `esql_call_complete`, `esql_next`, `esql_event_error`, `esql_timeout_cb`, `esql_reconnect_handler`, `esql_fd_handler` |
| connections | `src/lib/esql_connect.c` | `connected`, `database`, `reconnect`, `timeout`, connect callback | `esql_connect`, `esql_disconnect`, `esql_database_set`, `esql_connect_timeout_set`, `esql_reconnect_set`, `esql_connect_callback_set` |
| queries | `src/lib/esql_query.c` | `esql_id`, `esql_query_callbacks`, `esql_query_data`, the three lists of queued calls | `esql_query`, `esql_query_args`, `esql_query_vargs`, `esql_query_callback_set`, `esql_query_escape` |
| pools | `src/lib/esql_pool.c` | members, `e_connected`, the pool's `connected` | the calls above over all members, `esql_pool_idle_find_`, `esql_pool_rebalance`, `esql_pool_free` |
| object lifetime, library init | `src/lib/esql.c` | `event_count`, `dead`, `esql_init_count_`, loaded modules | `esql_new`, `esql_free`, `esql_fake_free`, `esql_type_set`, `esql_init`, `esql_shutdown` |
| results | `src/lib/esql_res.c`, `esql_convert.c`, `esql_alloc.c`, `esql_module.c` | `refcount`, rows | `esql_res_ref`, `esql_res_unref`, row iterators, value conversion |
| MySQL backend | `src/modules/mysql/esql_mysql_backend.c` | `backend.db` (a `MYSAC`), `backend.res` | the `backend.*` function table |
| MySAC client | `src/modules/mysql/mysac/` | `qst` (60 states), buffers, `errorcode`, the socket | `mysac_connect`, `mysac_send_query`, `mysac_send_database`, statements, row decoding, all non-blocking |
| PostgreSQL backend | `src/modules/postgresql/` | a `PGconn` | `PQconnectPoll`, `PQsendQuery`, ... |
| SQLite backend | `src/modules/sqlite/` | `thread`, `stmt`, `db` | queries in an `Ecore_Thread`, answers in the main loop |
| model adapter | `src/lib/esql_model.c` | rows as efl children | a thin layer over the above |
| tests | `src/tests/` | | three programs that call the library from its callbacks |

How they interact. The process has one thread (SQLite apart). The main loop
calls the library for a readable or writable descriptor, for a job and for a
timer. One dispatch runs a chain of tail calls:

    esql_connect_handler -> backend.io -> esql_call_complete | esql_event_error
        -> esql_next -> esql_connect_handler -> ...

until `io` wants to wait, nothing is queued, or the object is disconnected.
In the chain the library calls the program at four points (the connect
callback and the query callback, each for success and for failure), and there
the program may call any function of the library, on the object the chain is
working on too. A pool is an `Esql` whose calls fan out to its members; the
members look at the pool (`pool_struct`) to count connections, to announce
CONNECT and DISCONNECT once, and to move queued queries to the member that has
become idle.

What is hard here:

- *Interleaving without threads*: calls from callbacks, timers that fire over a
  dial under way, members that fail between one another's calls. The
  reconnect timer is never cancelled, so a second handshake can run over a live
  connection.
- *One call at a time, by hand*: `current`, three parallel lists, a hash for
  the data pointer and another for the callback have to agree at every exit of
  every function.
- *Failure in the middle*: an error of a query is not an error of the
  connection; a stale `errorcode` in the client fails the next query.
- *Counting*: `e_connected` goes up in one function and down in another, and so
  does `event_count`; a result's count is set, not added to.
- *Threads*: SQLite's workers write the object (`db`, `stmt`, `res`, `current`)
  while the main loop goes on, with no lock.
- *In place*: a row is decoded in the memory it is read from.
- *Nobody left to wake up*: the handler is disarmed before `io`; every path
  that leaves a call under way has to arm it or add a job.

What makes each component correct:

- queries: a query is in exactly one place until its outcome, has one outcome,
  keeps its data, ends in order, and ends at all if the server answers;
- connections: the last event CONNECT or DISCONNECT is the state of the
  connection and none is repeated, a query runs against the database the program had asked for, an object that
  reconnects does so until it succeeds, and one descriptor has one handler;
- pools: the count never falls short of the connected members, and is exact as
  long as nothing reconnects; the pool says it is connected if a member is;
- the client: one call of `mysac_io` either waits, ends its exchange or fails,
  whatever state the last command left; an exchange that ends well has read its
  whole answer, and a switch that ends well has been made by the server;
- lifetime: the events that name an object are counted, the last of them frees
  an object that waits for it, and a program that keeps a contract it can keep
  meets nothing freed;
- results: a result's count is the references there are, so that it is freed
  once, after the last of them;
- the SQLite backend: a statement has one user at a time, a result holds the
  rows of its query, a connected object has a handle, of the file the program
  named, no query is lost, and a disconnect returns;
- the conversions: a query says what its format and arguments say or is not
  made, and the server reads the arguments back as they were given; a row decoded in place gives each column as the server sent it or is
  refused; neither reads beyond what it was given.

## 2. The modules

| module | what it is |
|---|---|
| `Mysac.tla` | the MySQL client as one call of `backend.io` sees it: pure operators from a client state to the set of states that waiting, finishing or failing may leave |
| `Esql.tla` | the event loop, connections, queries and pools over `Mysac`: the state machine |
| `QueryService.tla` | what one connection promises about its queries: identifier order, one end each, and which of them may be lost |
| `EsqlProps.tla` | the properties, and the refinement mapping from `Esql` to `QueryService` |
| `MysacClient.tla` | the client as a state machine: every call the event loop makes on it, with what `Mysac` lets that call do |
| `MysacWire.tla` | the client packet by packet, with a server and a socket; implements `MysacClient` |
| `EsqlSqlite.tla` | a plain object over SQLite: the main loop's chain and the worker threads beside it |
| `EsqlSqliteProps.tla` | its properties, and its refinement of `QueryService` |
| `EsqlLifetime.tla` | the library, an object or pool, its events, sources and results: what may be freed when |
| `EsqlLifetimeProps.tla` | its properties |
| `EsqlText.tla`, `EsqlTextProps.tla` | a query put together from a format and its arguments, and what the format says |
| `MysacRow.tla`, `MysacRowProps.tla` | a row decoded in place, and what the server meant |
| `MCEsql.tla`, `MCMysacWire.tla`, `MCEsqlSqlite.tla`, `MCEsqlLifetime.tla`, `MCConversions.tla` | budgets and inputs for TLC |
| `EsqlProofs.tla` | TLAPS: the types of `Esql`, the pool's count, and what the program is told of connections |
| `EsqlHandlerProofs.tla` | TLAPS: one handler, and what moves a connection on |
| `EsqlQueryProofs.tla` | TLAPS: the places, the data, the outcome, the order and the database of a query |
| `EsqlSqliteProofs.tla` | TLAPS: the SQLite backend, workers included |
| `MysacWireProofs.tla` | TLAPS: the client packet by packet, as what `MysacClient` says of it |
| `EsqlLifetimeProofs.tla` | TLAPS: nothing freed is used under the contract, counts of events and results, the library |
| `EsqlTextProofs.tla` | TLAPS: a query says what its format and arguments say, and the scan of a format stays within it |
| `MysacRowProofs.tla` | TLAPS: a row decoded in place is the row that was sent, or is refused |

### `Mysac`

`struct MYSAC` is folded to the five values that decide what the next call
returns: where in which exchange it is (`proto`), the socket, whether
`error_get` returns a string, the database asked for and the database the
server has selected. The packets inside one exchange, and the buffers, are
folded: an exchange under way may wait any number of times, end, or fail.
That this folding lets the event loop see everything the packets can do is
what `MysacWire` is for.
Three facts of the code shape the module. `esql_mysac_error_get` returns
`errorcode`, which only a decoding error, a short read or the freeing of a
result sets, so an error outlives the call that met it. A call on a client that has
finished decodes its last packet again. And `mysac_connect` refuses to run
from the middle of a command, so that a dial over an unfinished query fails.
The kernel and the server are environment: what they do is a choice.

### `Esql`

`esql` is a function from member to a record of the fields of `struct Esql`
that control flow reads. `pool` is the pool's own `connected` and
`e_connected`. `run` says which function of the chain runs next, on which
member, in which dispatch: because the chain is made of tail calls, that is all
of the stack that matters. Each action is a function or a branch of one, and
takes every assignment the branch makes:

| code | actions |
|---|---|
| `esql_connect_handler` | `FdReady`, `RunJob`, then `IoWait`, `IoDone`, `IoFail` |
| `esql_call_complete` | `CompleteInit`, `CompleteQuery`, `CompleteOther` |
| `esql_next` | `NextIdle`, `NextDatabase`, `NextQuery` (with `esql_pool_rebalance`) |
| `esql_event_error` | `ErrorQuery`, `ErrorOther`, `Down` |
| timers | `TimeoutFires`, `ReconnectFires` |
| the program | `Connect`, `Disconnect`, `DatabaseSet`, `TimeoutSet`, `ReconnectSet`, `QueryCallbackSet`, `QueryStart`, `QueryQueue`, `QueryRefused`, `ResultUnref`, and `ConnectCbReturns`, `QueryCbReturns`, `ResultEvent` |

The program acts whenever control is with it (`ProgramPoints`): in the main
loop and inside any callback. A descriptor has at most one handler in ecore; a
second registration is refused and `e->fdh` becomes NULL while the first one
stays, which is `stray`. The history variable `told` has what
the program was told last of its connection, by an event or by the connect
callback that replaces CONNECT (and that a failure of the connection calls as
well, in `ErrorOther`), and whether it was told the same twice running
(`Announced`); ERROR is folded into `reported`. `results` counts the RESULT events
that are queued and the results the program has kept: the backend forgets its
error (`FreesError`) when the last reference goes, in the library or, with
`ResultUnref`, in the program. The history variables are read by
properties alone, except `answers`, `reported` and `dropped`, which also keep
the program from setting a callback for a query that has had its outcome (the
caller's side of `esql_query_callback_set`).

Abstractions that a reader should know:

- query times are left out, so the busy member a query is queued on is any
  busy member (`Picks`): a superset of what the code does;
- the connect timeout is a timer that may fire at any moment;
- queries, callbacks and data pointers are identifiers; SQL text and its escaping
  are `EsqlText`, rows `MysacRow`;
- `reconnect` is one value for the object and its members, as
  `esql_pool_reconnect_set` gives it; `"never"` is a program that has not called it;
- the wrap of the 32-bit query identifier is not reached (`MaxId`).

### `MysacWire`

One client with its connection. `c` holds the fields of `struct MYSAC` that
control flow reads: `qst` (the states of a dial, of a query without
preparation and of a switch), `call_it`, `readst`, whether `errorcode` is an
error, `expect`, the multi-result flag, the columns still to come, and the
parity of `nb_lines`, by which a row that comes is told from no row. `busy` says
that a call of `mysac_io` is running and `ret` what the last one returned. `srv`
and `wire` are the server and the packets on their way; each packet names the
command it answers, which properties alone read. `slipped` is a history variable: why
packets may lie on the connection that no exchange waits for; so is `selected`, the
database of the last switch that ended well, through which the client is mapped to
`Mysac` (`struct MYSAC` has no such field: `Esql` follows the server's database, and
`SwitchedAtServer` says that the server has it).

| code | actions |
|---|---|
| `esql_mysac_setup`, `_disconnect`, freeing a result | `SetupCall`, `DisconnectCall`, `FreeCall` |
| `mysac_s_set_query`, `mysac_set_database` | `QueryCall`, `TooLongCall`, `DatabaseCall` |
| `mysac_io`, `mysac_connect` called from outside | `IoCall`, `DialCall`, `RefusedIo`, `RefusedDial`, `IoAfterEnd` |
| `mysac_socket_connect`, `_check` | `SocketConnect`, `ConnCheck` |
| `mysac_write` | `WriteAll`, `WriteSome`, `WriteFails` |
| `mysac_decode_respbloc`, reading | `ReadHeader`, `ReadBody`, `ReadWaits`, `ReadLost`, `LostInRows` |
| `mysac_decode_respbloc`, deciding | `Makes`, `Expected` |
| the states of `mysac_connect` | `DecodeGreeting`, `DecodeAuth` |
| the states of `mysac_send_query` | `DecodeColNum`, `DecodeColDesc`, `DecodeEof1`, `DecodeRow`, `DecodeLastRow` |
| `mysac_send_database` | `DecodeInitDb` |
| every state's way out | `DecodeFails` |

Statements are of five kinds: what matters of one is what `check_action` makes
the client expect for its first word, and what a server answers it with. A CALL
is answered with up to `MaxSets` results, the last of which is followed by an OK or
an error, and an error may break off any of them. A
command is put over an exchange under way only if that is a handshake; for the
calls the event loop has under way this is not an assumption but the property
`CommandsInTurn` of `Esql`. Left out: a row that could not be converted and is
decoded again by a further call, and the memory of results, so that `io` after
a query has ended is described by `Mysac` alone.

### `EsqlSqlite`

The SQLite backend opens the file and steps a statement in ecore worker
threads. `workers` counts the threads by what they do next and `ended` holds
the ends the main loop has not handled; a worker's writes to the object (`db`,
`current`, a row added to `res`, `stmt`) are actions of their own, and come
between any two steps of the main thread, inside a callback too. There is no
descriptor, so `e->fdh` is NULL throughout and the chain is moved by jobs,
timers and the ends of workers.

| code | actions |
|---|---|
| `esql_sqlite_connect`, `_connect_cb` | `Connect`, `ReconnectFires`, then `WorkerOpens`, `WorkerSaysInit` or `WorkerCannotOpen` |
| `esql_sqlite_query`, `_io`, `_query_cb` | `QueryStart`, `QueryRefused`, `RunJob`, `NextQuery`, then `WorkerRow`, `WorkerDone`, `WorkerFails`, `WorkerFindsNone` |
| `esql_sqlite_thread_end_cb`, `_cancel_cb` | `WorkerEnded` |
| `esql_sqlite_disconnect` | `Close`, which waits at `"closing"` until `CloseEnds` |
| the chain | `CompleteInit`, `CompleteQuery`, `CompleteNothing`, `NextIdle`, `NextQuery`, `ErrorQuery`, `ErrorOther`, `Down`, `Retry`, `CbReturns` |

A handle keeps the set of its statements that are not finalised: that is what
`sqlite3_close` looks at. A NULL name is a database of its own (`"private"`),
which is what SQLite documents for it. `crossed` records that a dial was cut or
made over something else; several properties except it, and say so. `dialler` is who
dialled last, the program or the reconnect timer. A call of SQLite is one step,
`sqlite3_close` included, although the handle is opened with `SQLITE_OPEN_NOMUTEX`
(`esql_sqlite_backend.c:87`) and the main loop may call it beside a worker's
`sqlite3_step`: what two calls at a time do to such a handle is inside SQLite. The
last three writes of a worker that cannot open its file (the handle, the cancel,
`thread`) are two steps, the handle's first. Pools
over SQLite, the values of the rows and the notifications are left out.

### `EsqlLifetime`

`stale` becomes true at the step that would use something freed, and nothing
happens after it. An object has what the main loop will call about it (`src`:
descriptor, job, the timeout and any number of reconnect timers: each failure adds
one, and none is ever cancelled), `event_count` (`count`, modulo `Wrap`) and
`dead`; an event names the object (for a member, its pool) or a result; a
result has its count. What a connection talks about is left to `Esql`: its
input and output may wait, end the call under way, or fail.

| code | actions |
|---|---|
| `esql_init`, `esql_shutdown` | `EsqlInit` (success, a further user, or any of its failures), `EsqlShutdown` |
| `esql_new`, `esql_pool_new`, `esql_free`, `esql_pool_free` | `New`, `EsqlFree` |
| `esql_res_ref`, iterators, `esql_res_unref` | `Hold`, `Release` |
| the calls that add events or sources | `Connect`, `Disconnect`, `Query`, `TimeoutSet`, `CompleteInit`, `CompleteQuery`, `Fails`, `TimeoutFires`, `RetryFires`, `CallbackReturns` |
| `esql_fake_free`, `esql_res_free` at the end of an event | `EventStarts`, `EventEnds` |

The program may free, shut down and drop references at any time it can;
`tidy` records whether it has done so when it may. `SettledToFree` and
`SettledToShutDown` are what "when it may" comes to: `NoStaleUse` fails in the
model with any one of their conjuncts left out, each time over a short run: an
`esql_free` from a callback, before a timer, over a dial, before a result, and
for a pool before an event. esql.c promises less of the program ("If e has
pending events, the object will not be freed until after the events have
completed") and these are the cases in which that is not enough.

### `EsqlText` and `MysacRow`

`esql_query_escape` as a scan: one action per step of its loop, the pointers `p`
and `pp` as positions, every character class the switch tells apart one
character. `Servers` is what the text is for: a backend, and whether its server reads a
backslash as an escape (a setting of MySQL and PostgreSQL; SQLite does not); `Passed`
is the flag the backend's `escape` function gives `esql_query_escape`, which MySQL's
takes from the server and the other two do not. A `%c` of 0 appends nothing
(`CharText`). `EsqlTextProps` reads the same format from left to right with
functions recursive on the position and no pointers.

`mysac_decode_string_row` and `mysac_decode_binary_row` as one action per
column, over the bytes of the packet and the byte behind it: reading from `i`,
writing to `wh`, the zeroes put in and taken out again. `Strtol` takes
the characters that can belong to a number of the column's type (`Numerals`): digits,
and a point for `strtof` and `strtod` only, so that `strtoll` stops at the point of a
DECIMAL; signs and exponents count as digits, and numbers of a server have no blanks
before them.
A date or a number is the list of the pieces it was read from. The server's
side, which cells it sends, is external (`Cells`, `IsStringCell`,
`IsBinaryCell`, `PacketOf`), and `RowAssumption` says that rows are made of such
cells. Three kinds of row in binary form it leaves out: one with a DECIMAL, whose text the
decoder takes for the eight bytes of a number (`mysac_decode_row.c:143`), one with more than 126
columns, because the decoder copies the null bits to 16 bytes (`_null_ptr`,
`mysac_decode_row.c:51`) without looking at their number, and one with a value of a
type the decoder does not know, because none of its bytes is skipped and what
follows is read from the wrong place.

### `QueryService`

One variable, `outcome`, by identifier: `"none"`, `"waiting"`, `"ended"` or
`"lost"`. `Accept` takes the next identifier; `End` and `Lose` let the oldest
query that waits go, and no other. A plain object, over MySQL or SQLite, maps to
it by what its history and its queue say of an identifier: not given out yet is
`"none"`, with an outcome is `"ended"`, under way or queued is `"waiting"`, and
what is nowhere any more is `"lost"`. The positions of a queue are not in the
abstract state, so that the refinement says what the program can see of them.

## 3. The runs

All runs set `CHECK_DEADLOCK FALSE`: once the budget is spent and nothing is
under way the system really stops. `Budget` bounds what the environment may
still do, by kind; each run's budget is named in its MC module. `Size` is the
number of members, `MaxId` the number of queries accepted.

| run | instance | question |
|---|---|---|
| `single` | one connection without a connect callback, reconnecting set on or off at any time, 2 queries, 2 switches, a second dial, one failure, one disconnect, a callback, a result kept | are queries served in order and answered once, and lost only by a dial (`ServesInOrder`, `AnsweredOnce`, `LostOnlyByDialling`); does one handler drive the chain (`OneHandler`); is a command put in the client's buffer only when none is under way (`CommandsInTurn`); does a query run against the database asked for (`DirectedAtDb`); does an object go on trying (`KeepsTrying`); do CONNECT and DISCONNECT come when they should, and once (`ToldRight`) |
| `pool` | two members with a connect callback, reconnecting set on or off, 2 queries, a failure, a disconnect, a switch, a second dial | does rebalancing move queries without copying them and with their data (`OnePlace`, `DataKept`); does the count cover the members (`PoolCovers`), exactly without reconnecting (`PoolCount`); is each query answered once (`AnsweredOnce`) |
| `live` | one connection, 4 queries, a server that answers | does the line move (`KeepsServing`) |
| `pool_live` | two members, a failure and a timeout | is a connected member with a call always going to be woken (`Wakeable`); is the program told when the last member goes (`PoolTellsLoss`, which takes two losses); is a login noticed (`LoginNoticed`); does every query end (`EveryQueryEnds`) |
| `wire` | one client, all five kinds of statement, 2 commands, at most 2 columns and 1 row, one fault | does the client do what `Mysac` says (`DoesAsMysac`); does an exchange that ends well read its whole answer (`OkReadsAll`); has the server made a switch that ends well (`SwitchedAtServer`); does an exchange end (`ExchangeEnds`) |
| `sqlite` | one object, 2 queries, a failure, a disconnect, a timeout, a callback | has a statement one user (`OneUser`); does an answer hold its own rows (`OwnRows`); has a connected object a handle, of its own file (`SameFile`); is a query lost only when dials cross (`LostOnlyByCrossing`); are queries served in order (`ServesInOrder`) and ended, a disconnect that waits for the worker going on after it (`QueriesEnd`) |
| `lifetime` | two users of the library, a plain object or a pool of two, a query, two turns of another kind | `CountsEvents`, `WillBeFreed`, `NoStaleUse`, `RefsExact` |
| `conversions` | all formats of at most 4 characters with small arguments; all pairs of the cells `MCConversions` lists, in both forms, whole and cut, and rows whose null bits take two bytes | does a query say what its format says (`Renders`, `RefusesMalformed`, `ReadsBack`) and the scan stay within it (`InBounds`); does a row give what was sent (`MeansAsSent`), stay within its packet (`InPacket`), and is a broken one refused (`RefusesBroken`) |
| `switch_stalls` | violation | a switch on an idle connection ends |
| `lost_in_rows` | violation | a call of the client returns, whatever becomes of the server |
| `sqlite_close_hangs` | violation | a disconnect over SQLite returns |
| `text_refused` | violation | a query can be made with a string |

Why the bounds are enough. Two queries and two switches give a call under way and
others behind it, which is what reordering needs (four queries in `live`); two
members are what rebalancing, counting and "first of" need; one failure plus one
disconnect plus a second dial let every error path meet every program call,
and the callbacks add all calls from inside the chain. Reconnect timers are
bounded by the number of failures; in `lifetime` a timer that is started costs a turn,
of which there are two, so that two timers are all there can be. For the client, two commands let the first
leave packets to the second, two columns are the least that tell a column from
the last one, and a result with and without a row meets each packet where any
other is expected; one fault is a server that goes at any point, or one
packet that cannot be decoded. The runs
give a CALL one result, with another announced behind it that is an OK or an error;
`OkReadsAllCorrect` is for any number. Over SQLite a handle is leaked when dials cross,
so there are more handles than dials. For lifetimes, one query and two other
turns let an event, a result and a source outlive each other in any order;
`Wrap` is 2^32 in the code, and any value above the number of events does. A
format of four characters holds two conversions, or one with `ll` between
others; two columns are what it takes for one to be written over the other.
Long lengths (252 and above) are given small values: what is checked is
where each form ends, not how much memory a row has.

Fairness (`FairSpec`). A callback returns and the chain goes on: weak fairness
of `Chain`. An iteration of the main loop serves every source that is ready, so
a source that is ready again and again is served: strong fairness of `FdReady`,
`RunJob`, `ReconnectFires`. The server, asked again and again, finishes an
exchange: strong fairness of `IoDone`; this is an assumption on the server, and
`IoFail` stays possible as long as the budget allows. The program has no
fairness. `QueryService` is refined with its own fairness in `live`. The
liveness runs over `Esql` take for granted that a call of `backend.io` returns;
`lost_in_rows` shows the one way found in which it does not.

For the client (`WireFairness`), the event loop calls `io` for an exchange that
waits (weak fairness of `IoCall`; `esql_connect_handler` arms the descriptor
whenever `io` wants to wait), a call goes on until it returns (weak fairness of
its steps), and a socket tried again and again takes or gives what it has
(strong fairness of `WriteAll`, `ReadHeader`, `ReadBody`). Nothing makes the
server stay. Over SQLite, a worker opens the file and says so (weak fairness), a
statement has finitely many rows (strong fairness of `WorkerDone`, whatever the
main thread does meanwhile), and the main loop serves the ends of workers and the
jobs.

`TypeOK` of `Esql` is checked and proved. The types of `EsqlSqlite`,
`EsqlLifetime` (`TypeOK`) and `MysacWire` (`WireTypeOK`), and `LibraryUp` of
`EsqlLifetime`, are proved, and no run spends time on them.

What the violation runs show (each is quoted in `PROJECT.json`):

- `esql_database_set` on an idle, connected object puts `COM_INIT_DB` into the
  client's buffer and marks the object busy, but arms no handler and adds no
  job. The command is sent only when something else makes the descriptor
  ready. `esql_query` adds `fd_job` in the same situation.
- a server that goes while it sends rows is never noticed inside the call: in
  state `DATA` the client takes whatever is not the end of the rows, the loss
  of the server included, for a row (`mysac_query.c:419`), and the call may
  decode what its buffer holds for ever, the program's main loop with it.
- a disconnect over SQLite between `esql_query` and the job it added spins for
  ever in `while (sqlite3_close(...))`: the statement has been compiled and
  nobody will finalise it.
- every query with a `%s` that is not NULL is refused: the EINA_TRUE of
  `eina_strbuf_append` is taken for an error (`src/lib/esql_query.c:177`).

Divergences met without a run of their own are exceptions the properties name,
and the run shows that there are no others:

- `esql_reconnect_handler` selects the database again by queueing a switch
  behind what was queued before the failure, so those queries run on a session
  without a database (`DirectedAtDb` speaks of one session), and in a pool
  `esql_pool_rebalance` moves a query over a switch (`esql_pool.c:54`: it speaks
  of plain objects);
- a reconnect whose dial fails at once starts no further timer, and tells
  DISCONNECT of an object that may be up (`KeepsTrying`, `ToldRight`);
- a dial made in a callback is forgotten by the `esql_next` that follows, which
  clears `current` (`esql_events.c:37`; `KeepsTrying`, `LoginNoticed`);
- a connection that fails calls the connect callback (`esql_events.c:272`), which is
  documented as what replaces the event CONNECT (`esql_connect.c:115`): a program
  with one is told the same of a success and of a failure, and has to ask
  `esql_isconnected` (`ToldRight` speaks of programs without one);
- a dial over a connection that is up leaves `e->fdh` NULL (`esql_connect.c:66`),
  and `esql_next` arms `e->fdh` alone: the call under way waits for whatever
  wakes the first handler (the condition on `stray` in `Wakeable`);
- the pool's own `connected` flag is cleared by `esql_pool_disconnect` alone;
  when its last member is closed by a failure or a timeout the pool still says
  it is connected (`PoolTellsLoss` says what does hold);
- a reconnect timer that fires over a live connection runs a second handshake,
  whose completion counts the member again (`esql_events.c:108`), so that a pool
  may announce CONNECT early: `PoolCovers` is an inequality;
- a query that fails while its descriptor has no error flag and that has no
  callback ends with neither a RESULT nor an ERROR event (`esql_events.c:264`,
  the set `dropped`); over SQLite its rows begin the next answer (`OwnRows`);
- over SQLite, dials that overlap leave handles and workers without an owner
  (`crossed`); a timeout that fires during a dial, with the retry that follows, ends in
  a worker that writes `current` over the query under way (`esql_sqlite_backend.c:95`),
  which is lost (`LostOnlyByCrossing`); an `esql_disconnect` between the two writes of
  a worker that dials (lines 87 and 95) closes the handle, and the end of the dial makes
  the object connected without one, though `esql_isconnected` returns "true if
  connected" (`esql.c:186`; `SameFile` excepts `crossed`);
- over SQLite, closing forgets the file's name (`esql_sqlite_backend.c:54`): the
  reconnect timer opens an empty database of its own, where `esql_connect.c:246`
  promises that the connection re-establishes itself (`SameFile` speaks of the object
  the program dialled);
- SQLite's and PostgreSQL's backends escape with backslashes whatever the server reads
  (`esql_sqlite_backend.c:237`, `esql_postgresql_backend.c:260`): a quote given with
  `%c` is not read back by SQLite, which knows no such escapes, nor by a PostgreSQL
  server with `standard_conforming_strings`, where `esql_query.c:291` promises "all
  necessary escaping" (`SameRule` in `ReadsBack`);
- SHOW, DESCRIBE and EXPLAIN are taken for statements answered with an OK
  (`mysac_utils.c:51`): they fail, and the rest of the answer is read by the
  next (`slipped`); SELECT ... INTO is taken for one with rows
  (`mysac_utils.c:44`) and never ends (`ExchangeEnds`);
- a pool's events are counted at a member and uncounted at the pool
  (`CountsEvents` and `WillBeFreed` speak of a plain object): after one
  delivered event the pool's count has wrapped and `esql_free` waits for ever;
- an error result that the program keeps is given out again as the next answer
  (`RefsExact`), and a failed `esql_init` makes the next one succeed
  (`LibraryUp`);
- a format that begins with a conversion, or has two in a row, gets a stray
  '%' (`Spaced`, from `src/lib/esql_query.c:114`); a DECIMAL in string form is read
  with `strtoll`, and the row is refused if it has a fraction (`Fraction`,
  `mysac_decode_row.c:342`); a year in binary form is not checked to be there and a date of
  no length is read off the bytes that follow (`InPacket`); what is NULL in a
  row in binary form is left as it was (`MeansAsSent`).

## 4. The proofs

Every theorem is about `Spec` (`WireSpec`, `TextSpec`, `RowSpec`) with any constants the
named assumptions allow: any number of members, queries, databases, columns,
rows, handles and events, any budget. `PROJECT.json` lists them with the property
each states. The assumptions say that sizes and bounds are natural numbers, that
settings are Booleans, that a plain object is one connection, that no database is
`NoDb`, which kinds of statement there are, and that a reconnect timer is no other
source; `Wrap` is at least 2; that texts are
sequences of characters, and that a row is made of cells as a server sends them
(section 2). No assumption is about a state.

No property is inductive as it stands, `OneHandler` excepted. What the proofs add:

### Types, counts and what the program is told

`TypeInv == TypeOK /\ QueryHasId /\ PoolCovers` (`EsqlProofs`). `TypeOK` says that
the pool's count is a natural number and `PoolWithout` subtracts from it the
connected members of a set, so the types need `PoolCovers` (the count is at
least the number of connected members); `QueryHasId` keeps `answers` in its
domain when a query ends. One lemma per action, `TypeStep` puts them together;
the lemmas about cardinalities rest on the library's `FS_` theorems.

`CountInv` (`EsqlProofs`) adds, for a program that has not set reconnecting,
that there are no timers (`NoTimers`) and that a member whose handshake is about
to be counted is not yet connected (`InitSettles`): an exact count needs every
completed handshake to be of a member that was not counted. Each step is
classified by what it does to the connections (`Changes`): nothing (`Still`), it
closes a set of members (`Closes`), or one handshake completes (`Opens`).
`PoolCount`, and with `ToldInv` also `ToldRight` and `PoolTellsLoss`, then take
three lemmas each and no second walk through the actions. `ToldRight` is about a
plain object without a connect callback that does not reconnect: with the callback the
same claim is false (section 3), and a reconnect timer that cannot dial
tells DISCONNECT whatever the object is.

### Queries

    QueryInv == TypeInv /\ Placed /\ WithData /\ Behind /\ Control /\ AnsweredOnce

(`EsqlQueryProofs`). `Placed`: queues are in the order of identifiers, what is
queued has no outcome, and no query is in two queues, under way twice, or both.
`WithData`: the hash has the data of what is queued and of nothing else. `Behind`:
what is queued is behind what is under way, and an idle connected object has
nothing queued. `Control`: which query the handlers at each point of the chain are
about, and which objects may keep a query that has had its outcome as their
current call (`Parked`: `esql_event_error` leaves it there when it disconnects, and
nothing may complete it a second time). Again each step is one of five:
`Rests`, `Starts`, `Enters`, `Takes` (from its own queue or, by rebalancing, from
another member's) or `Ends`. That classification gives the invariant,
`LostOnlyByDialling` and the refinement, step by step: `ServesInOrder` is proved
for the plain object it speaks of (`Pooled` is false; for a pool there is no order
to keep).

`CommandsInTurn` needs `SwitchOver`: when a call is complete the client is in no
exchange, and a switch is over when `esql_next` runs.

`DirectedAtDb` is about the only session of a plain object. `SessionInv` follows it
from before the dial (`Unborn`) through `Open` to `Shut`, and says of the queue
what `Reaches` defines: the database a call at place `i` will find is that of
the last switch in front of it, or, with none there, the one the client has
selected or is selecting. Appending and popping preserve that (`ReachesAppend`,
`ReachesPast`, `ReachesTail`); a switch that fails breaks it, and then the object
is about to be closed (`Missed`) and no query runs again. `Thrift` and `Spent`,
about the budget, are what keeps "there is only one session so far" true of the
steps that matter.

### What moves a connection on

`OneHandler` (`EsqlHandlerProofs`) is inductive once the state has its types.
`LinkInv` says of the object the chain is going through (`Held`, point by point)
and of every other object (`Free`) which handler, job or client state there is to
continue a handshake or a query, and, as long as the program has not been called
back for anything but events, which object a client that has logged in belongs to
(`Noticed`, `Noted`). `Wakeable` and `LoginNoticed` are the part of it that the main
loop sees. `KeepsTrying` is an action property; of each step either the object
goes on trying (`Persists`) or it is one of the exceptions the property names.

### The client

`Turns` (`MysacWireProofs`) ties the client's state to the call under way, to the
socket and to what has been read, which is what `WireTypeOK` needs to be
inductive. `DoesAsMysacCorrect` is the refinement of `MysacClient`, that is, of
the operators `Esql` uses: every packet is a stutter, an end or a failure that
`Mysac` allows. With it the theorems about `Esql` hold of what a client made of packets
lets the event loop see, as far as `MysacWire` models it.

`OkReadsAll` rests on `Clean`: while nothing was left behind, the wire holds
what the exchange under way has still to read. `IsAnswer` and `Fields` say what
such a wire looks like, with any number of result sets, columns and rows, without
recursion: every place in it is followed by what may follow it. `SwitchedAtServer`
rests on `Agree`: while nothing was left behind, what a switch finds on the wire is its
own answer, a refusal or the OK of a server that has the database asked for.

### SQLite

`LineInv` (`EsqlSqliteProofs`) is `QueryInv` for one object, with worker threads that
write `current` and `res` between any two steps of the main thread; from it the
refinement of `QueryService`. `Calm` holds until dials cross: at most one thread or
ending is under way (`OneWorker`); the query under way has the job, then the thread,
then the ending, and its statement is open in the object's handle (`Turns`); the
result has the query's rows and those of dropped ones (`Rows`); and from its
opening on the handle is of the named file if the program dialled (`Opens`). `OneUser`,
`OwnRows` and `SameFile` follow, and `LostOnlyByCrossing`: a query that has no outcome
is under way or queued. There is no lock in the code; `OneWorker` is the reason that it
does without one, and `crossed` is where that ends.

### Lifetimes

    Safe == TypeInv /\ (tidy => Contract)
    Contract == Counts /\ (handle => InUse) /\ (Working => lib.up /\ handle)
             /\ (~handle => Left) /\ ~stale

(`EsqlLifetimeProofs`, the arguments and the object's kind left out here), for
plain objects and pools of any size. `Counts`: a result's count is
what the program holds, the events that are queued and the callback that is running
(`Balanced`), and `e->res` is that callback's result or nothing (`Forgotten`).
`InUse`: as long as the program has its handle nothing of the object is freed
and what is connected has a descriptor. `Working`: a live result, a callback or a source
is there only while the library is up and the program has the object. `Left`:
what may be left once it has freed it. A step about
connections touches no result and frees nothing, whatever else it does (`Sound`),
which is proved once for each helper of the model. `NoStaleUse` and `RefsExact`
are parts of `Contract`; `SettledToFree` and `SettledToShutDown`, the
contract as the program sees it, are shown to be enough, and TLC showed that
none of their conjuncts can go.

`CountsEvents` and `WillBeFreed`, of a plain object and without the contract, use
`LifeInv`: the count equals, modulo `Wrap`, the queued events about the object plus
the one being handled, and a dead object that is still allocated has one of
them left. `NumAppend`, `NumTail`, `ModUp` and `ModDown` are about putting and taking
an event and about the wrap. Pools are excluded: both fail for them (section 3).
`LibraryUp` uses `LibInv`: as long as no `esql_init` has failed, the count is the
number of users, which is what `esql_shutdown` goes by.

### The text of a query

`EsqlTextProofs` and `MysacRowProofs` are about data of any length, so that they need
induction along a sequence. The library's induction theorem takes a predicate,
which the provers cannot instantiate; that `<` is well-founded on `Nat` can be had
without one, and gives induction with a set in the place of the predicate: `Least`,
`UpTo`, and from them `Iterates` (a function given by its first value and by how
each follows from the last exists, and is that) and `Places` (where the parts of a
flattened sequence are). The recursive functions of `EsqlTextProps` are such
iterations, and `StartsStep` and `RenderedStep` give one step of each.

`ScanInBounds` adds to `InBounds` that the state is the scan of a string over the
characters of a format (`Scanning`), so that a character that is not the
terminator is in front of it. `Renders` and `RefusesMalformed` follow from `Going`:
at each point of the scan all there is before its place has been dealt with
(`Progress`), which is that the place cuts no conversion (`Boundary`), that the
conversions before it are known ones (`Sound`), that the arguments taken are
theirs, in order (`Placed`), and that the text made so far is what the format
says up to there whatever arguments follow (`Made`). `ReadsBack` is an
induction along the text that is escaped: whatever a server has read so far, what a
character is escaped as makes it read that character and nothing else, if the server
has the rule that was escaped by; that it has is the premise `SameRule`, which holds of
every MySQL server (`Asked`), and `NothingToEscape` is what is left for the others. No
more can be proved of them.

### A row

    RowInv == Shape /\ InPacket /\ Separates
           /\ (at = "bitmap" => nothing read) /\ (at = "column" => Reading)
           /\ \A k < j : Right(k)

(`MysacRowProofs`). `Shape`: the packet is what `PacketOf` gives for the row that
was sent, less what was cut. `IsLayout` says where each cell begins in it; `Layouts` proves
that there is such a place for every cell, and `BitOfColumn` that the bit the
decoder looks at (a byte pointer and a bit that is doubled, shifted out and set
again) is that of the column. `Reading`: the decoder is where the next cell
begins, what it writes is not ahead of what it reads (`wh <= i`), and what is still to
be read is as it came (`Unread`), so that the cell is found there whatever has been
moved and zeroed before (`ColumnIs`, `SizedReads`). `Right`: a column decoded is
what was sent, in memory as it is now; a text lies below `wh`, where nothing is
written again. `PieceReads` is about numbers and dates: the zeroes at the ends of the
pieces make `strtol` take each piece and no more, and the byte behind the text is put
back because the next cell begins with it. Each step either decodes its column
(`Decodes`), for which `Advances` gives the invariant, or refuses the row with a
reason (`Refuses`). A row that stops early has been cut, because a cell
that is whole is always found to fit, or it has a piece that is not all numerals of its type
(`Unreadable`), which is one that MySQL does not write (`Malformed`) or a DECIMAL with a
fraction (`Fraction`; `Separates` and `UnreadableIs`); `InPacket` and `RefusesBroken` except the
one type whose bytes are not counted, the year, and the dates read for
longer than they are. That the null pointer `CellNull` writes through in binary form is
never met is part of `Shape`.

### What the proofs changed

`EsqlLifetime` was written with folds over the members and their events; its
changes are now given pointwise, one value per object, which spares each
step an induction of its own. In `MysacWire` two `CASE`s had guards
that overlapped, which left their value open where two held: what a client
expects at the start of a further result, and how its state is mapped to
`Mysac`; and the first byte of a number of columns above 250 says how many bytes
follow (`FirstByte`). Some properties held within the runs' bounds and not
beyond them, and now say what the code does (the divergences of section 3):
`KeepsTrying` did not except a dial made in a callback, `LoginNoticed` excepted
the wrong programs, `Wakeable` did not except an object dialled twice, and
`DirectedAtDb` spoke of pools. `ToldRight` became stronger: it holds at every point of
a chain and not only in the main loop, and no event is repeated.

The reference functions of `EsqlTextProps` were recursive in a way that consumed
the arguments; they now go from position to position, each value from the last.
The null bits of `MysacRow` were a fold over the columns and a power of two; they are
now a sum of eight bits with their weights and the table of weights the shifting
goes through. `MeansAsSent` had no date with microseconds, which the decoder
reads over and drops (`Kept`); and the row's assumptions were nowhere stated:
`RowAssumption` is what the properties hold under, and what it leaves out is
where they do not.

### What rests on TLC alone

Every invariant and action property of the runs is a theorem. What is not:

- *Liveness* (`KeepsServing`, `EveryQueryEnds`, `ExchangeEnds`, `QueriesEnd`): fairness
  and ENABLED are out of the prover's reach.
- The four violation runs, which are counterexamples.

## 5. What is left

Not modelled, and why:

- *the PostgreSQL backend*: its `error_get` returns `PQerrorMessage`, which is
  an empty string and never NULL, so `esql_query` gives 0 for each query after
  it has been sent (`src/lib/esql_query.c:255`), and no answer finds its query.
  A model of what follows would be one of a backend that cannot be used.
- *the efl model adapter*: it needs generated headers the repository does not
  hold; what it calls is modelled.
- *prepared statements* and the sending of values (`mysac_stmt.c`,
  `mysac_encode_values.c`): the library never makes one. Rows in binary
  form are modelled because the client's decoder is the same.
- *values*: how a MySQL or SQLite value becomes an `Eina_Value`, printing, the
  wording of errors and logs.
- *memory*: the growth of the client's buffers and of results, and which memory
  pool Eina has.
- *esql_type_set* on an object in use, module loading, and the wrap of the
  32-bit identifier of queries.
- the test programs, which say from where the library is called.

Next: the pool of a SQLite object, with its events; a pool's refinement of a
bag of queries, each served once, in place of the line a plain object keeps.
