-------------------------- MODULE EsqlSqliteProps --------------------------
(***************************************************************************)
(* What an object over SQLite owes the program, and where crossing calls   *)
(* break it.                                                               *)
(***************************************************************************)
EXTENDS EsqlSqlite

InFlight == {id \in Ids : esql.current = "query" /\ esql.curId = id /\ outcome[id] = "none"}
InQueue == {esql.queue[i] : i \in DOMAIN esql.queue}

(***************************************************************************)
(* A statement belongs to its worker until the worker is through with it:  *)
(* the main thread neither compiles another into its place nor finalises   *)
(* it under sqlite3_step.  Nothing but the object's own order of events    *)
(* keeps the two apart (e->backend.stmt is shared, without a lock); the    *)
(* callbacks of two dials that overlap do not keep it.                     *)
(***************************************************************************)
OneUser ==
  [][workers.query > 0 /\ esql.stmt # None /\ esql'.stmt # esql.stmt =>
       workers'.query < workers.query \/ crossed']_vars

(***************************************************************************)
(* The rows of an answer are the rows of its query, though the worker adds *)
(* them to whatever result the object holds.  The exception is a query     *)
(* that fails after some rows and has no callback: its result is left in   *)
(* e->res, and the next answer begins with its rows.                       *)
(***************************************************************************)
Dropped == {id \in Ids : outcome[id] = "dropped"}
OwnRows == ~crossed => \A id \in Ids : rows[id] \subseteq {id} \cup Dropped

(***************************************************************************)
(* An object that says it is connected has a database handle, though the   *)
(* worker stores the handle and says what it was doing in two writes and   *)
(* the main loop learns later; and if the program dialled, the handle is   *)
(* of the file it named, whatever was opened and closed before.  Neither   *)
(* is so without its condition: an esql_disconnect between the two writes  *)
(* of the worker (crossed) closes the handle, and the end of the dial      *)
(* makes the object connected without one; and closing has forgotten the   *)
(* file's name by the time the reconnect timer dials, which opens an empty *)
(* database of its own.                                                    *)
(***************************************************************************)
SameFile == ~crossed /\ run.at # "closing" /\ esql.connected =>
  /\ esql.db # None
  /\ dialler = "program" => handles[esql.db].file = "named"

(***************************************************************************)
(* Every query accepted is brought to an end, one way or another: its      *)
(* callback or an event has its answer, or the error has been passed over. *)
(* An esql_disconnect that comes while a worker runs a statement waits for *)
(* it, and then goes on.  The exception is one that finds a statement that *)
(* has been compiled and no worker has been given (its job has not run),   *)
(* and hangs in sqlite3_close (CloseReturns).                              *)
(***************************************************************************)
Stuck == run.at = "closing" /\ esql.job
QueriesEnd == \A id \in Ids : id <= lastId ~> outcome[id] # "none" \/ crossed \/ Stuck

(***************************************************************************)
(* esql_disconnect returns: "Disconnecting is immediate" (esql_connect.c). *)
(* It does not when a query has been compiled and its job has not run: the *)
(* statement is not finalised by anyone, sqlite3_close fails for ever, and *)
(* the loop around it never ends.                                          *)
(***************************************************************************)
CloseReturns == run.at = "closing" ~> run.at # "closing"

(***************************************************************************)
(* The object implements a query service (QueryService): it serves queries *)
(* in the order in which they were made, each ends at most once, and the   *)
(* only one that may be forgotten is the first of those that wait.         *)
(***************************************************************************)
Outcome == [id \in Ids |-> IF id > lastId THEN "none"
                           ELSE IF outcome[id] # "none" THEN "ended"
                           ELSE IF id \in InFlight \cup InQueue THEN "waiting" ELSE "lost"]
Service == INSTANCE QueryService WITH outcome <- Outcome
ServesInOrder == Service!SSpec

(***************************************************************************)
(* Only a dial that crosses something makes the object forget a query:     *)
(* then a worker says "init" over the query under way (after a timeout     *)
(* that fires during the dial the retry comes on top of the query), and    *)
(* neither the answer nor the error has an addressee.  Otherwise every     *)
(* query accepted waits or has ended, whatever fails or is closed.         *)
(***************************************************************************)
LostOnlyByCrossing == ~crossed => \A id \in Ids : Outcome[id] # "lost"
=============================================================================
