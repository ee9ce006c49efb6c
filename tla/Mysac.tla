------------------------------- MODULE Mysac -------------------------------
(***************************************************************************)
(* The bundled MySAC client, as the event loop of the library meets it: a  *)
(* state machine behind one socket (src/modules/mysql/mysac) and the thin  *)
(* backend that calls it (src/modules/mysql/esql_mysql_backend.c).  The    *)
(* values here are the part of struct MYSAC that decides what the next     *)
(* call of mysac_io returns:                                               *)
(*                                                                         *)
(*   proto  mysac->qst, with the stages of one exchange folded together:   *)
(*          "start" (no socket), "auth" (handshake under way), "authed",   *)
(*          "db"/"dbDone" (COM_INIT_DB), "query"/"queryDone" (COM_QUERY),  *)
(*          "failed" (the exchange broke off; decoding again repeats it)   *)
(*   sock   "none", "live" or "dead" (open here, gone at the server)       *)
(*   err    error_get returns a string: errorcode is neither 0 nor one of  *)
(*          the two MYERR_WANT_ values                                     *)
(*   ask    the database an unfinished COM_INIT_DB asks for                *)
(*   db     the database the server has selected for this session: none    *)
(*          after the handshake, which carries the database's name but not *)
(*          the client flag that makes a server read it                    *)
(*                                                                         *)
(* Every operator returns the set of states one call may leave behind; the *)
(* choice is the server's and the network's.                               *)
(***************************************************************************)
EXTENDS Naturals

CONSTANT DbNames         \* the database names the program uses

NoDb == 0

ASSUME DbNamesAssumption == DbNames \subseteq Nat \ {NoDb}

Protos == {"start", "auth", "authed", "db", "dbDone", "query", "queryDone", "failed"}
Sockets == {"none", "live", "dead"}

MYSAC == [proto : Protos, sock : Sockets, err : BOOLEAN,
          ask : DbNames \cup {NoDb}, db : DbNames \cup {NoDb}]

\* After mysac_new; esql_mysac_disconnect zeroes the structure back to it.
Fresh == [proto |-> "start", sock |-> "none", err |-> FALSE,
          ask |-> NoDb, db |-> NoDb]

\* esql_mysac_setup before a dial makes mysac_connect the function io runs; it
\* refuses to go on from another command's state.
Setup(m) == [m EXCEPT !.proto = IF @ \in {"db", "dbDone", "query", "queryDone"} THEN "failed" ELSE @]

\* mysac_s_set_query: the command is in the buffer, whatever the socket's state.
SetQuery(m) == [m EXCEPT !.proto = "query"]

SetError(m) == [m EXCEPT !.err = TRUE]

\* mysac_b_set_query on a statement longer than the buffer.
QueryTooLong(m) == SetError(m)

SetDatabase(m, d) == [m EXCEPT !.proto = "db", !.ask = d]

\* esql_mysac_res_free: freeing any result forgets the error code.
ClearError(m) == [m EXCEPT !.err = FALSE]

----------------------------------------------------------------------------
Exchange == {"auth", "db", "query"}

Talking(m) == m.proto \in Exchange /\ m.sock = "live"

\* No server behind the command: the call can only fail (or, with no socket
\* at all, sit on file descriptor 0).
Doomed(m) == \/ m.proto = "failed"
             \/ m.proto \in Exchange /\ m.sock # "live"

\* mysac_io returns MYERR_WANT_READ or MYERR_WANT_WRITE.  A short read stores
\* MYERR_WANT_READ in errorcode, over an older error; a short write does not.
Waiting(m) ==
  CASE m.proto = "start" -> {[m EXCEPT !.proto = "auth", !.sock = "live"]}
    [] Talking(m) \/ m.proto = "queryDone" -> {m, ClearError(m)}
    [] m.proto \in Exchange /\ m.sock = "none" -> {m}
    [] OTHER -> {}

\* The exchange is over: io returns 0.
Ended(m) ==
  [m EXCEPT !.proto = CASE @ = "auth" -> "authed" [] @ = "db" -> "dbDone" [] OTHER -> "queryDone",
            !.db = IF m.proto = "db" THEN m.ask ELSE @,
            !.ask = NoDb]

\* mysac_io returns 0.  Calling it again once an exchange is over decodes the
\* old packet again: after the handshake and COM_INIT_DB that is the same OK;
\* after COM_QUERY it reads the freed result, so that any outcome is possible.
Done(m) ==
  IF Talking(m) THEN {Ended(m), ClearError(Ended(m))}
  ELSE IF m.proto \in {"authed", "dbDone", "queryDone"} THEN {m} ELSE {}

\* The exchange broke off, with the connection as it is or gone.
Broken(m, s) == [m EXCEPT !.proto = "failed", !.sock = s]
Breaking(m, s) == {Broken(m, s), SetError(Broken(m, s))}

\* mysac_io returns any other code.  Decoding errors are kept in errorcode;
\* a failed write and a wrong protocol version are returned without being kept.
Failing(m) ==
  LET unreachable == [SetError(m) EXCEPT !.proto = "start", !.sock = "none"]
  IN CASE m.proto = "start" -> {SetError(m)}
       [] Doomed(m) -> Breaking(m, m.sock)
       [] Talking(m) /\ m.proto = "auth" ->
            {unreachable} \cup Breaking(m, "live") \cup Breaking(m, "dead")
       [] (Talking(m) /\ m.proto # "auth") \/ m.proto = "queryDone" ->
            Breaking(m, "live") \cup Breaking(m, "dead")
       [] OTHER -> {}

\* backend.connect is mysac_connect called directly: in the middle of another
\* command it refuses with MYERR_BAD_STATE and changes nothing else.
ConnectWaiting(m) == IF m.proto \in {"start", "auth"} THEN Waiting(m) ELSE {}
ConnectDone(m) == IF m.proto \in {"auth", "authed"} THEN Done(m) ELSE {}
ConnectFailing(m) ==
  IF m.proto \in {"start", "auth", "failed"} THEN Failing(m)
  ELSE IF m.proto = "authed" THEN {} ELSE {SetError(m)}
============================================================================
