------------------------------- MODULE MCEsql -------------------------------
(***************************************************************************)
(* What the program and the network may still do, for each question asked  *)
(* of the event loop.                                                      *)
(***************************************************************************)
EXTENDS EsqlProps

Allow(fault, connect, disconnect, db, timeout, callback, rec, keep) ==
  [fault |-> fault, connect |-> connect, disconnect |-> disconnect, database |-> db,
   timeout |-> timeout, callback |-> callback, reconnect |-> rec, keep |-> keep]

Misfortunes == Allow(1, 2, 1, 2, 0, 1, 1, 1) \* one of each, two switches, a second dial, a result kept
Redialled == Allow(1, 2, 1, 1, 0, 0, 1, 0)   \* a failure, a disconnect, a switch, a second dial
Quiet == Allow(0, 1, 0, 0, 0, 1, 0, 0)       \* a server that answers
Mishaps == Allow(1, 1, 0, 0, 1, 1, 0, 0)     \* a failure and a timeout, one dial
Switch1 == Allow(0, 1, 0, 1, 0, 0, 0, 0)     \* one database switch, no failure
=============================================================================
