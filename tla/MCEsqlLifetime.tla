--------------------------- MODULE MCEsqlLifetime ---------------------------
(***************************************************************************)
(* Bounds for one life of the library: calls of esql_init, dials, queries, *)
(* and turns of another kind (a failure, a disconnect, a timeout, a        *)
(* reference taken).                                                       *)
(***************************************************************************)
EXTENDS EsqlLifetimeProps

Allow(init, connect, query, turn) ==
  [init |-> init, connect |-> connect, query |-> query, turn |-> turn]

OneLife == Allow(2, 1, 1, 2)   \* one query and two other turns, a second user of the library
=============================================================================
