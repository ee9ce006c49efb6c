------------------------- MODULE EsqlLifetimeProps --------------------------
(***************************************************************************)
(* What may be freed when, and what the program has to know about it.      *)
(***************************************************************************)
EXTENDS EsqlLifetime

\* The events about the object that have been added and have not ended.
Pending == (IF run.at = "handler" /\ run.what = AboutObject THEN 1 ELSE 0)
           + Cardinality({i \in DOMAIN heap.events : heap.events[i] = AboutObject})

(***************************************************************************)
(* A plain object counts its pending events, at every place where one is   *)
(* added (esql_call_complete, esql_event_error, esql_disconnect,           *)
(* esql_reconnect_handler) and whatever calls the next: that is what       *)
(* esql_free goes by.  A pool does not: its events are added to the count  *)
(* of a member and taken from the count of the pool.                       *)
(***************************************************************************)
CountsEvents == kind = "plain" /\ heap.obj[0].st = "live" => heap.obj[0].count = Pending % Wrap

(***************************************************************************)
(* "If e has pending events, the object will not be freed until after the  *)
(* events have completed" (esql.c), and it is freed then: a plain object   *)
(* that waits for that has an event that will free it.  (A pool that has   *)
(* delivered an event waits for ever.)                                     *)
(***************************************************************************)
WillBeFreed == kind = "plain" /\ heap.obj[0].dead /\ heap.obj[0].st = "live" => Pending > 0

(***************************************************************************)
(* The contract that keeps a program away from freed memory.  It frees an  *)
(* object outside its callbacks, disconnected, with no timer, job or dial  *)
(* left, after all results (SettledToFree: for a pool, with no event left  *)
(* either); it shuts down when no result and no timer is left; and it      *)
(* takes no reference on an error result.  Then nothing freed is used,     *)
(* whatever events are still to come and whatever order they come in.      *)
(***************************************************************************)
NoStaleUse == tidy => ~stale

\* The reference the library itself holds on a result: for a callback or event
\* handler that is running, or an event that is to come.
OwnRefs(r) == Cardinality({i \in DOMAIN heap.events : heap.events[i] = r})
              + (IF run.at # "loop" /\ run.what = r THEN 1 ELSE 0)

(***************************************************************************)
(* "Increase result reference count, preventing it from being deleted"     *)
(* (esql_res_ref): a result's count is the references of the program and   *)
(* its iterators and the library's own, to the end, so that what is held   *)
(* is not freed and what nobody holds is not kept.  The exception is an    *)
(* error result: one that the program keeps stays in e->res, and the next  *)
(* answer of a plain object is given in it, with its count set back to one *)
(* (src/lib/esql_events.c:149), and frees it when its callback returns.    *)
(***************************************************************************)
RefsExact == tidy => \A r \in Results : heap.res[r].refs = held[r] + OwnRefs(r)

(***************************************************************************)
(* Whenever esql_init has told the program that the library is initialised *)
(* and it has not been shut down as often, it is.  The exception is an     *)
(* esql_init that failed before: the next one finds its count and returns  *)
(* 2 for a library that was never set up.                                  *)
(***************************************************************************)
LibraryUp == ~lib.broken => (lib.up <=> lib.users > 0)
=============================================================================
