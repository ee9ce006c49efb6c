---------------------------- MODULE QueryService ----------------------------
(***************************************************************************)
(* What one connection promises the program about its queries: they wait   *)
(* in the order in which esql_query accepted them, which is that of their  *)
(* identifiers, and only the first of those that wait ends, once; dialling *)
(* the server again may cost the program the first, never another one.     *)
(***************************************************************************)
EXTENDS Naturals

CONSTANT MaxId           \* bound on accepted queries

VARIABLE outcome         \* "none", "waiting", "ended" or "lost", by identifier

SInit == outcome = [id \in 1 .. MaxId |-> "none"]

\* A query is accepted: identifiers are given out in order.
Accept ==
  \E id \in 1 .. MaxId :
    /\ outcome[id] = "none"
    /\ \A older \in 1 .. (id - 1) : outcome[older] # "none"
    /\ outcome' = [outcome EXCEPT ![id] = "waiting"]

Leave(how) ==
  \E id \in 1 .. MaxId :
    /\ outcome[id] = "waiting"
    /\ \A older \in 1 .. (id - 1) : outcome[older] # "waiting"
    /\ outcome' = [outcome EXCEPT ![id] = how]

\* The first query that waits ends: with its result, or with an error.
End == Leave("ended")

\* The first query that waits is forgotten.
Lose == Leave("lost")

SNext == Accept \/ End \/ Lose

SSpec == SInit /\ [][SNext]_outcome

\* With a server that answers, the queries that wait move on.
SFairSpec == SInit /\ [][Accept \/ End]_outcome /\ WF_outcome(End)
=============================================================================
