----------------------------- MODULE MysacWire -----------------------------
(***************************************************************************)
(* The MySAC client packet by packet: the states of mysac->qst, the packet *)
(* reader every exchange is built on, and a server that answers commands   *)
(* in the order it got them.  A call of mysac_io runs until the socket     *)
(* would block, the exchange is over or it breaks off; its reads and       *)
(* writes are steps of their own.                                          *)
(*                                                                         *)
(* Statements are told apart by what mysac_query decides from their first  *)
(* word, and by what a server answers them with:                           *)
(*   select   rows                          SELECT ...                     *)
(*   into     OK                            SELECT ... INTO ...            *)
(*   dml      OK                            INSERT, UPDATE, DELETE, ...    *)
(*   show     rows                          SHOW, DESCRIBE, EXPLAIN, ...   *)
(*   call     any number of results, then OK   CALL                        *)
(* and each of them with an error instead.                                 *)
(***************************************************************************)
EXTENDS Mysac, Sequences

CONSTANTS
  Stmts,       \* the kinds of statement the program makes
  MaxCmd,      \* bound on commands
  MaxCols,     \* bound on the columns of a result
  MaxRows,     \* bound on the rows of a result
  MaxSets,     \* bound on the results of a CALL
  MaxFaults    \* bound on what the network and the decoders may spoil

ASSUME StmtsAssumption == Stmts \subseteq {"select", "into", "dml", "show", "call"}
ASSUME WireBoundsAssumption ==
  /\ MaxCmd \in Nat /\ MaxCols \in Nat \ {0} /\ MaxRows \in Nat
  /\ MaxSets \in Nat /\ MaxFaults \in Nat

VARIABLES
  c,           \* struct MYSAC
  busy,        \* a call of the client is running
  ret,         \* what the last call of io returned for the exchange under way
  srv,         \* the server's end: is it up, is the session open, its database, what it will read
  wire,        \* packets on their way to the client
  faults,      \* what is left of MaxFaults
  (* history *)
  cmd,         \* how many commands have been put in the buffer
  slipped,     \* why packets may be left on the connection that nobody waits for
  selected     \* the database of the last switch that ended well

vars == <<c, busy, ret, srv, wire, faults, cmd, slipped, selected>>

Handshake == {"START", "CONN_CHECK", "READ_GREETINGS", "SEND_AUTH", "RECV_AUTH", "SEND_AUTH_2"}
QuerySts == {"SEND_QUERY", "COLNUM", "COLDESC", "EOF1", "DATA"}
DatabaseSts == {"SEND_INIT_DB", "RECV_INIT_DB"}
Sending == {"SEND_AUTH", "SEND_AUTH_2", "SEND_QUERY", "SEND_INIT_DB"}
Receiving == {"READ_GREETINGS", "RECV_AUTH", "COLNUM", "COLDESC", "EOF1", "DATA", "RECV_INIT_DB"}

Packet == [kind : {"greeting", "ok", "err", "eof", "oldauth", "cols", "field", "row"},
           of : 0 .. MaxCmd, n : 0 .. MaxCols, more : BOOLEAN]

Requests == {"nothing", "initdb"} \cup Stmts

ClientRec ==
  [qst : Handshake \cup QuerySts \cup DatabaseSts,
   call : {"connect", "query", "database"},      \* call_it
   readst : {"len", "data", "decode"},
   err : BOOLEAN,                                \* errorcode is neither 0 nor MYERR_WANT_
   expect : {"ok", "data"},
   more : BOOLEAN,                               \* status & RESPONSE_MULTI_RESULTS
   cols : 0 .. 255,                              \* nb_cols - read_id
   lines : {0, 1},                               \* nb_lines % 2
   ask : DbNames \cup {NoDb},                    \* the database in the buffer
   sock : Sockets]

\* The types of the variables.
WireTypeOK ==
  /\ c \in ClientRec
  /\ busy \in BOOLEAN
  /\ ret \in {"none", "want", "ok", "fail"}
  /\ srv \in [up : BOOLEAN, open : BOOLEAN, db : DbNames \cup {NoDb}, request : Requests]
  /\ wire \in Seq(Packet)
  /\ faults \in Nat
  /\ cmd \in 0 .. MaxCmd
  /\ slipped \in {"no", "over", "unread"}
  /\ selected \in DbNames \cup {NoDb}

NewClient == [qst |-> "START", call |-> "connect", readst |-> "len", err |-> FALSE,
              expect |-> "data", more |-> FALSE, cols |-> 0, lines |-> 0,
              ask |-> NoDb, sock |-> "none"]
NoServer == [up |-> FALSE, open |-> FALSE, db |-> NoDb, request |-> "nothing"]

WireInit ==
  /\ c = NewClient /\ busy = FALSE /\ ret = "none"
  /\ srv = NoServer /\ wire = <<>> /\ faults = MaxFaults
  /\ cmd = 0 /\ slipped = "no" /\ selected = NoDb

----------------------------------------------------------------------------
(* What a server answers *)

P(kind) == [kind |-> kind, of |-> cmd, n |-> 0, more |-> FALSE]
Times(n, p) == [i \in 1 .. n |-> p]

\* Columns, fields, rows, and what ends them: another result may be announced
\* there, or an error break the rows off.
ResultSet(n, r, last) ==
  <<[P("cols") EXCEPT !.n = n]>> \o Times(n, P("field")) \o <<P("eof")>>
    \o Times(r, P("row")) \o <<last>>
ResultSets(last) == {ResultSet(n, r, last) : n \in 1 .. MaxCols, r \in 0 .. MaxRows}
MoreToCome == [P("eof") EXCEPT !.more = TRUE]

Ok == {<<P("ok")>>}
Err == {<<P("err")>>}
Rows == ResultSets(P("eof")) \cup ResultSets(P("err"))

\* What answers a CALL of n results at most: each announces that more follows,
\* and an OK or an error comes after the last, unless that breaks off.
CallStep(rest) ==
  rest \cup ResultSets(P("err")) \cup {s \o t : s \in ResultSets(MoreToCome), t \in rest}
Called[n \in 0 .. MaxSets] == IF n = 0 THEN Ok \cup Err ELSE CallStep(Called[n - 1])

Answers(request) ==
  Err \cup
  CASE request = "auth" -> Ok \cup {<<P("oldauth")>>}
    [] request \in {"auth2", "initdb", "into", "dml"} -> Ok
    [] request \in {"select", "show"} -> Rows
    [] request = "call" -> Called[MaxSets]
    [] OTHER -> {}

----------------------------------------------------------------------------
(* The calls of the event loop *)

Turn == ~busy

\* Two ways to leave packets of an answer to the next exchange: it begins before
\* this one is over, or this one ends with some of them unread.
Slips(why) == slipped' = IF slipped = "no" THEN why ELSE slipped
GivenUpIf(underWay) == IF underWay THEN Slips("over") ELSE UNCHANGED slipped
LeavesUnread ==
  IF \E i \in DOMAIN wire' : wire'[i].of = cmd THEN Slips("unread") ELSE UNCHANGED slipped

\* esql_mysac_setup; another command that is under way is given up.
SetupCall ==
  /\ Turn
  /\ c' = [c EXCEPT !.call = "connect"]
  /\ GivenUpIf(ret = "want" /\ c.qst \notin Handshake)
  /\ UNCHANGED <<busy, ret, srv, wire, faults, cmd, selected>>

DisconnectKeepsClient ==                        \* mutant: the structure is not zeroed
  /\ Turn
  /\ c' = [c EXCEPT !.sock = "none"]
  /\ ret' = "none"
  /\ srv' = NoServer /\ wire' = <<>>
  /\ slipped' = "no"
  /\ UNCHANGED <<busy, faults, cmd, selected>>

\* esql_mysac_disconnect.
DisconnectCall ==
  /\ Turn
  /\ c' = NewClient
  /\ ret' = "none"
  /\ srv' = NoServer /\ wire' = <<>>
  /\ slipped' = "no" /\ selected' = NoDb
  /\ UNCHANGED <<busy, faults, cmd>>

\* Freeing a result.
FreeCall ==
  /\ Turn
  /\ c' = [c EXCEPT !.err = FALSE]
  /\ UNCHANGED <<busy, ret, srv, wire, faults, cmd, slipped, selected>>

\* check_action: what the first word of a statement makes the client expect.
Expects(s) == IF s \in {"select", "into", "call"} THEN "data" ELSE "ok"

\* A command is put in the buffer; over an exchange under way only if that is a
\* handshake (for the call under way, EsqlProps!CommandsInTurn).
Commands ==
  /\ Turn
  /\ cmd < MaxCmd
  /\ ret = "want" => c.qst \in Handshake
  /\ cmd' = cmd + 1
  /\ ret' = "none"
  /\ GivenUpIf(ret = "want")
  /\ UNCHANGED <<busy, wire, faults, selected>>

\* mysac_s_set_query; CALL announces more results before any has come.
QueryCall(s) ==
  /\ Commands
  /\ c' = [c EXCEPT !.qst = "SEND_QUERY", !.call = "query", !.expect = Expects(s),
                    !.more = IF s = "call" THEN TRUE ELSE @]
  /\ srv' = [srv EXCEPT !.request = s]

\* mysac_s_set_query on a statement that does not fit the buffer.
TooLongCall ==
  /\ Turn
  /\ c' = [c EXCEPT !.err = TRUE]
  /\ UNCHANGED <<busy, ret, srv, wire, faults, cmd, slipped, selected>>

\* mysac_set_database.
DatabaseCall(d) ==
  /\ Commands
  /\ c' = [c EXCEPT !.qst = "SEND_INIT_DB", !.call = "database", !.ask = d]
  /\ srv' = [srv EXCEPT !.request = "initdb"]

Begin == busy' = TRUE /\ UNCHANGED <<c, ret, srv, wire, faults, cmd, slipped, selected>>

\* mysac_io, for an exchange that has not ended.
IoCall ==
  /\ Turn
  /\ ret \in {"none", "want"}
  /\ c.call = "connect" => c.qst \in Handshake
  /\ Begin

\* mysac_connect called directly during the handshake.
DialCall ==
  /\ Turn
  /\ ret \in {"none", "want"}
  /\ c.qst \in Handshake
  /\ Begin

\* A call of mysac_connect in the state of another command.
Refuse(r) ==
  /\ Turn
  /\ c.qst \notin Handshake
  /\ c' = [c EXCEPT !.err = TRUE]
  /\ ret' = r
  /\ UNCHANGED <<busy, srv, wire, faults, cmd, slipped, selected>>
RefusedDial == Refuse(ret)
RefusedIo == c.call = "connect" /\ Refuse("fail")

\* mysac_io again after an exchange has ended decodes its last packet again.
\* After a query that packet is in a result that has been freed; what comes of
\* that is in Mysac!Done, and not here.
IoAfterEnd ==
  /\ Turn
  /\ c.call = "connect" => c.qst \in Handshake
  /\ \/ ret = "ok" /\ c.call # "query" /\ UNCHANGED c
     \/ ret = "fail" /\ c.qst # "START" /\ c' \in {c, [c EXCEPT !.err = TRUE]}
  /\ UNCHANGED <<busy, ret, srv, wire, faults, cmd, slipped, selected>>

----------------------------------------------------------------------------
(* Inside a call: sockets *)

Running(states) == busy /\ c.qst \in states

Return(r, client) ==
  /\ busy' = FALSE
  /\ ret' = r
  /\ c' = client
  /\ UNCHANGED <<srv, faults, cmd>>

Want(client) == Return("want", client) /\ UNCHANGED <<wire, slipped, selected>>

\* The exchange breaks off; what is left of its answer stays on the wire.
Breaks(client) ==
  /\ Return("fail", client)
  /\ LeavesUnread
  /\ UNCHANGED selected

\* mysac_socket_connect.
SocketConnect ==
  /\ Running({"START"})
  /\ \/ /\ busy' = FALSE /\ ret' = "want"
        /\ c' = [c EXCEPT !.qst = "CONN_CHECK", !.sock = "live"]
        /\ srv' = [srv EXCEPT !.up = TRUE]
        /\ wire' \in {<<P("greeting")>>, <<P("err")>>}
        /\ UNCHANGED faults
     \/ /\ faults > 0 /\ faults' = faults - 1
        /\ busy' = FALSE /\ ret' = "fail"
        /\ c' = [c EXCEPT !.err = TRUE]
        /\ UNCHANGED <<srv, wire>>
  /\ UNCHANGED <<cmd, slipped, selected>>

\* mysac_socket_connect_check.
ConnCheck ==
  /\ Running({"CONN_CHECK"})
  /\ \/ /\ srv.up
        /\ c' = [c EXCEPT !.qst = "READ_GREETINGS", !.readst = "len"]
        /\ UNCHANGED <<busy, ret, wire, srv>>
     \/ /\ ~srv.up
        /\ busy' = FALSE /\ ret' = "fail"
        /\ c' = [c EXCEPT !.qst = "START", !.err = TRUE, !.sock = "none"]
        /\ wire' = <<>> /\ srv' = NoServer
  /\ UNCHANGED <<faults, cmd, slipped, selected>>

AfterSending(q) ==
  CASE q \in {"SEND_AUTH", "SEND_AUTH_2"} -> "RECV_AUTH" [] q = "SEND_QUERY" -> "COLNUM"
    [] OTHER -> "RECV_INIT_DB"

\* The server reads the command and answers it; one that comes before the
\* session is open ends the connection.
Serves ==
  \/ /\ ~srv.up
     /\ UNCHANGED <<wire, srv>>
  \/ /\ srv.up /\ c.call # "connect" /\ ~srv.open
     /\ wire' = Append(wire, P("err"))
     /\ srv' = [srv EXCEPT !.up = FALSE]
  \/ /\ srv.up /\ c.call # "connect" /\ srv.open
     /\ \E answer \in Answers(srv.request) :
          /\ wire' = wire \o answer
          /\ srv' = IF srv.request = "initdb" /\ answer # <<P("err")>>
                    THEN [srv EXCEPT !.db = c.ask] ELSE srv
  \/ /\ srv.up /\ c.call = "connect"
     /\ \E answer \in IF c.qst = "SEND_AUTH" THEN Answers("auth") ELSE Answers("auth2") :
          /\ wire' = wire \o answer
          /\ srv' = [srv EXCEPT !.open = (answer = <<P("ok")>>), !.up = (answer # <<P("err")>>)]

\* mysac_write takes the rest of the command.
WriteAll ==
  /\ Running(Sending)
  /\ c.sock = "live"
  /\ c' = [c EXCEPT !.qst = AfterSending(@), !.readst = "len"]
  /\ Serves
  /\ UNCHANGED <<busy, ret, faults, cmd, slipped, selected>>

\* mysac_write takes part of it, or nothing.
WriteSome ==
  /\ Running(Sending)
  /\ c.sock # "dead"
  /\ Want(c)

\* mysac_write fails: the code is returned and not kept.
WriteFails ==
  /\ Running(Sending)
  /\ c.sock = "live" => ~srv.up
  /\ UNCHANGED wire
  /\ Breaks([c EXCEPT !.sock = IF @ = "live" THEN "dead" ELSE @])

\* mysac_decode_respbloc reads the four bytes of the header, then the packet.
ReadPart(from, to) ==
  /\ Running(Receiving)
  /\ c.readst = from
  /\ wire # <<>>
  /\ c' = [c EXCEPT !.readst = to]
  /\ UNCHANGED <<busy, ret, srv, wire, faults, cmd, slipped, selected>>
ReadHeader == ReadPart("len", "data")
ReadBody == ReadPart("data", "decode")

\* The read would block, or brings part of what is missing.  A body that has
\* not begun to come leaves errorcode as it is.
ReadWaits ==
  /\ Running(Receiving)
  /\ c.readst # "decode"
  /\ wire = <<>> => srv.up
  /\ \/ Want([c EXCEPT !.err = FALSE])
     \/ c.readst = "data" /\ Want(c)

\* The server is gone: mysac_decode_respbloc returns MYERR_SERVER_LOST.
Lost ==
  /\ Running(Receiving)
  /\ c.readst # "decode" /\ wire = <<>> /\ ~srv.up

\* Where a packet is expected to be of one kind, that is not it.
ReadLost ==
  /\ Lost
  /\ UNCHANGED wire
  /\ Breaks([c EXCEPT !.sock = "dead", !.err = TRUE])

\* A row has been decoded.
NextLine(client) == [client EXCEPT !.readst = "len", !.lines = (@ + 1) % 2]

\* Among the rows, whatever is not the end of the rows is decoded as a row: the
\* memory behind the last one.  If that makes a row, the client asks for the next one, which is lost as well.
LostInRows ==
  /\ Lost
  /\ c.qst = "DATA"
  /\ c' = NextLine(c)
  /\ UNCHANGED <<busy, ret, srv, wire, faults, cmd, slipped, selected>>

----------------------------------------------------------------------------
(* Inside a call: the packet that has been read *)

Expected ==
  CASE c.qst = "RECV_AUTH" \/ (c.qst = "COLNUM" /\ c.more) -> "both"
    [] c.qst = "COLNUM" /\ ~c.more -> c.expect
    [] c.qst = "RECV_INIT_DB" -> "ok"
    [] OTHER -> "data"

\* What mysac_decode_respbloc may make of a packet: its first byte is 255, 254
\* or 0 for an error, an EOF or an OK; a row whose first value is empty begins
\* with 0, too.
Makes(p, expect) ==
  LET ok == IF expect = "data" THEN {} ELSE IF p.kind = "ok" THEN {"ok"}
            ELSE IF p.kind = "row" THEN {"ok", "other"} ELSE {}
      other == IF expect = "ok" THEN "error"
               ELSE IF p.kind \in {"eof", "oldauth"} THEN "eof" ELSE "data"
  IN IF p.kind = "err" THEN {"error"}
     ELSE IF ok = {"ok"} THEN ok
     ELSE IF ok = {} THEN {other} ELSE {"ok", other}

\* What the state goes on with.
Accepts(made, p) ==
  CASE c.qst = "READ_GREETINGS" -> made = "data"
    [] c.qst = "RECV_AUTH" -> made = "ok" \/ p.kind = "oldauth"
    [] c.qst = "COLNUM" -> made = "ok" \/ (made = "data" /\ c.expect = "data")
    [] c.qst = "COLDESC" -> made = "data"
    [] c.qst = "EOF1" -> made = "eof"
    [] c.qst = "DATA" -> made \in {"eof", "data"}
    [] OTHER -> made = "ok"

\* The status of an OK or an EOF is kept.
Status(made, p) == [c EXCEPT !.more = IF made \in {"ok", "eof"} THEN p.more ELSE @]

\* mysac_decode_respbloc has a packet.
Decoding(made) ==
  /\ Running(Receiving)
  /\ c.readst = "decode"
  /\ made \in Makes(Head(wire), Expected)
  /\ wire' = Tail(wire)

GoOn(client) ==
  /\ c' = [client EXCEPT !.readst = "len"]
  /\ UNCHANGED <<busy, ret, srv, faults, cmd, slipped, selected>>

\* The exchange is over: 0 is returned.  The answer has been read over the
\* command, in the same buffer.
Finish(client) ==
  /\ Return("ok", [client EXCEPT !.ask = NoDb])
  /\ selected' = IF c.call = "database" THEN c.ask ELSE selected
  /\ LeavesUnread

\* An error packet, or one the state has no use for.
DecodeFails(made) ==
  /\ Decoding(made)
  /\ ~Accepts(made, Head(wire))
  /\ Breaks([Status(made, Head(wire)) EXCEPT !.err = TRUE])

\* mysac_connect: the greeting, whose version is returned and not kept if it is
\* not ours, and the answer to the password, in the old form if asked for.
DecodeGreeting ==
  /\ Decoding("data")
  /\ c.qst = "READ_GREETINGS"
  /\ \/ GoOn([c EXCEPT !.qst = "SEND_AUTH", !.more = FALSE])
     \/ Breaks([c EXCEPT !.more = FALSE])

DecodeAuth(made) ==
  /\ Decoding(made)
  /\ c.qst = "RECV_AUTH"
  /\ \/ made = "ok" /\ Finish(Status(made, Head(wire)))
     \/ Head(wire).kind = "oldauth" /\ GoOn([Status(made, Head(wire)) EXCEPT !.qst = "SEND_AUTH_2"])

DecodeInitDbUnchecked ==                        \* mutant: any answer will do
  /\ Running(Receiving) /\ c.readst = "decode"
  /\ wire' = Tail(wire)
  /\ c.qst = "RECV_INIT_DB"
  /\ Finish(c)

\* mysac_send_database.
DecodeInitDb ==
  /\ Decoding("ok")
  /\ c.qst = "RECV_INIT_DB"
  /\ Finish(Status("ok", Head(wire)))

\* The first byte of a length-coded integer: itself, or how many bytes follow.
FirstByte(n) == IF n <= 250 THEN n ELSE 252

\* The number of columns, read from the first byte of whatever came: a field
\* begins with the length of its catalog's name, "def", a greeting with the
\* protocol's version, a row with the length of its first value.  With none
\* announced, as by an OK, the client still waits for one.
Columns(p) ==
  CASE p.kind = "cols" -> {FirstByte(p.n)} [] p.kind = "field" -> {3} [] p.kind = "greeting" -> {10}
    [] p.kind = "ok" -> {1} [] OTHER -> {FirstByte(n) : n \in 1 .. MaxCols}

\* mysac_send_query: the first packet of an answer.
DecodeColNum(made) ==
  /\ Decoding(made)
  /\ c.qst = "COLNUM"
  /\ \/ made = "ok" /\ Finish(Status(made, Head(wire)))
     \/ /\ made = "data" /\ c.expect = "data"
        /\ \E n \in Columns(Head(wire)) : GoOn([c EXCEPT !.qst = "COLDESC", !.cols = n, !.lines = 0])

\* mysac_decode_field and mysac_decode_string_row refuse what is not a field or
\* a row, and values they cannot convert.
Spoilt(kind) ==
  /\ Head(wire).kind = kind => faults > 0
  /\ busy' = FALSE /\ ret' = "fail" /\ c' = [c EXCEPT !.err = TRUE]
  /\ faults' = IF Head(wire).kind = kind THEN faults - 1 ELSE faults
  /\ LeavesUnread
  /\ UNCHANGED <<srv, cmd, selected>>

AfterField(n) == IF n > 1 THEN [c EXCEPT !.cols = n - 1] ELSE [c EXCEPT !.cols = 0, !.qst = "EOF1"]

DecodeColDesc ==
  /\ Decoding("data")
  /\ c.qst = "COLDESC"
  /\ GoOn(AfterField(c.cols)) \/ Spoilt("field")

DecodeEof1 ==
  /\ Decoding("eof")
  /\ c.qst = "EOF1"
  /\ GoOn([Status("eof", Head(wire)) EXCEPT !.qst = "DATA"])

\* A row, or the end of the rows: more results may follow it.
DecodeRow ==
  /\ Decoding("data")
  /\ c.qst = "DATA"
  /\ GoOn(NextLine(c)) \/ Spoilt("row")

LastRowIgnoringMore(p) == Finish(Status("eof", p))               \* mutant: results left behind
LastRowWaitingOn(p) == GoOn([Status("eof", p) EXCEPT !.qst = "COLNUM"])   \* mutant: always more
LastRow(p) ==
  IF p.more THEN GoOn([Status("eof", p) EXCEPT !.qst = "COLNUM"]) ELSE Finish(Status("eof", p))
DecodeLastRow ==
  /\ Decoding("eof")
  /\ c.qst = "DATA"
  /\ LastRow(Head(wire))

----------------------------------------------------------------------------
\* The server, or the network between, goes: what was on its way may be lost.
ServerGoes ==
  /\ srv.up
  /\ faults > 0 /\ faults' = faults - 1
  /\ srv' = [srv EXCEPT !.up = FALSE]
  /\ \E k \in 0 .. Len(wire) :
       /\ c.readst = "decode" => k > 0
       /\ wire' = SubSeq(wire, 1, k)
  /\ UNCHANGED <<c, busy, ret, cmd, slipped, selected>>

Calls ==
  \/ SetupCall \/ DisconnectCall \/ FreeCall \/ TooLongCall
  \/ (\E s \in Stmts : QueryCall(s)) \/ (\E d \in DbNames : DatabaseCall(d))
  \/ IoCall \/ DialCall \/ RefusedDial \/ RefusedIo \/ IoAfterEnd

Decode ==
  \/ (\E made \in {"eof", "ok", "error", "data"} :
        DecodeFails(made) \/ DecodeAuth(made) \/ DecodeColNum(made))
  \/ DecodeGreeting \/ DecodeInitDb \/ DecodeColDesc \/ DecodeEof1
  \/ DecodeRow \/ DecodeLastRow

Reads == ReadHeader \/ ReadBody \/ ReadWaits \/ ReadLost \/ LostInRows
Writes == WriteAll \/ WriteSome \/ WriteFails

WireNext == Calls \/ SocketConnect \/ ConnCheck \/ Writes \/ Reads \/ Decode \/ ServerGoes

WireSpec == WireInit /\ [][WireNext]_vars

(***************************************************************************)
(* The event loop calls io whenever the exchange under way waits; a call    *)
(* goes on until it returns; a socket that is tried again and again takes   *)
(* or gives what it has.                                                    *)
(***************************************************************************)
WireFairness ==
  /\ WF_vars(IoCall)
  /\ WF_vars(SocketConnect \/ ConnCheck \/ Decode)
  /\ WF_vars(Writes) /\ WF_vars(Reads)
  /\ SF_vars(WriteAll) /\ SF_vars(ReadHeader) /\ SF_vars(ReadBody)

FairWireSpec == WireSpec /\ WireFairness

----------------------------------------------------------------------------
(* Properties *)

Proto ==
  IF c.call = "connect" /\ c.qst \notin Handshake THEN "failed"
  ELSE IF c.qst = "START" THEN "start"
  ELSE IF ret = "fail" THEN "failed"
  ELSE CASE c.call = "connect" -> IF ret = "ok" THEN "authed" ELSE "auth"
         [] c.call = "database" -> IF ret = "ok" THEN "dbDone" ELSE "db"
         [] c.call = "query" -> IF ret = "ok" THEN "queryDone" ELSE "query"

Client == INSTANCE MysacClient
  WITH m <- [proto |-> Proto, sock |-> c.sock, err |-> c.err, ask |-> c.ask, db |-> selected],
       ret <- ret

\* Every call of the client does what Mysac says one call may do, whatever
\* packets come, in whatever pieces, and wherever the connection breaks: the
\* event loop was modelled over the right client.
DoesAsMysac == Client!CSpec

\* A call that returns 0 has read its answer to the last packet: an exchange
\* that ends well leaves nothing for the next one to read.
OkReadsAll == [][busy /\ ret' = "ok" => slipped' = slipped]_vars

\* When mysac_io returns 0 for a switch, the server has made that very switch:
\* as long as nothing was left behind, no refusal and no other packet is taken
\* for its OK, and the queries that follow go to the database asked for.
SwitchedAtServer ==
  [][busy /\ ret' = "ok" /\ c.call = "database" /\ slipped = "no" => srv.db = c.ask]_vars

\* An exchange under way ends, unless it is a SELECT that is answered with an
\* OK, the server goes while it sends rows, or packets of an earlier answer are
\* in the way.
ExchangeEnds ==
  (ret = "want" /\ c.sock = "live") ~>
    \/ ret # "want"
    \/ slipped # "no"
    \/ srv.request = "into"
    \/ c.qst = "DATA" /\ ~srv.up

\* A call of the client returns to the main loop ("a completely asynchronous
\* client-side SQL library", README:1), whatever becomes of the server.
CallReturns == busy ~> ~busy
=============================================================================
