---------------------------- MODULE MysacClient ----------------------------
(***************************************************************************)
(* The client as a state machine of its own: the calls the event loop makes *)
(* on it, with what Mysac lets each of them do.                            *)
(***************************************************************************)
EXTENDS Mysac

VARIABLES
  m,      \* the part of struct MYSAC that Mysac describes
  ret     \* what the last call of io returned for the exchange under way

Rets == {"none", "want", "ok", "fail"}

CInit == m = Fresh /\ ret = "none"

\* esql_mysac_setup, esql_mysac_disconnect, freeing a result.
Prepare ==
  \/ m' = Setup(m) /\ UNCHANGED ret
  \/ m' = Fresh /\ ret' = "none"
  \/ m' = ClearError(m) /\ UNCHANGED ret

\* A command is put in the buffer.
Command ==
  \/ m' = SetQuery(m) /\ ret' = "none"
  \/ m' = QueryTooLong(m) /\ UNCHANGED ret
  \/ \E d \in DbNames : m' = SetDatabase(m, d) /\ ret' = "none"

\* backend.io.
Io ==
  \/ m' \in Waiting(m) /\ ret' = "want"
  \/ m' \in Done(m) /\ ret' = "ok"
  \/ m' \in Failing(m) /\ ret' = "fail"

\* backend.connect, which the middle of another command refuses.
Dial ==
  \/ m' \in ConnectWaiting(m) /\ ret' = "want"
  \/ m' \in ConnectDone(m) /\ ret' = "ok"
  \/ m' \in ConnectFailing(m) /\ ret' \in {"fail", ret}

CSpec == CInit /\ [][Prepare \/ Command \/ Io \/ Dial]_<<m, ret>>
=============================================================================
