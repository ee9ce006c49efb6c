---------------------------- MODULE MCMysacWire ----------------------------
(***************************************************************************)
(* The statements and bounds of each question about the client.            *)
(***************************************************************************)
EXTENDS MysacWire

AllStmts == {"select", "into", "dml", "show", "call"}
=============================================================================
