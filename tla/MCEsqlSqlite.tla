---------------------------- MODULE MCEsqlSqlite ----------------------------
(***************************************************************************)
(* Bounds for one object over SQLite: how often a statement or the opening *)
(* of a file may fail, and how often the program may connect, disconnect,  *)
(* set a timeout and set a query callback.                                 *)
(***************************************************************************)
EXTENDS EsqlSqliteProps

Allow(fault, connect, disconnect, timeout, callback) ==
  [fault |-> fault, connect |-> connect, disconnect |-> disconnect,
   timeout |-> timeout, callback |-> callback]

Crossing == Allow(1, 1, 1, 1, 1)
Once == Allow(1, 1, 1, 0, 0)
=============================================================================
