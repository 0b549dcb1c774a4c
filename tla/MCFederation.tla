---------------------------- MODULE MCFederation ----------------------------
(* TLC instance of Federation.tla: two hosts, the first by name with more  *)
(* cores, room for two runners and a ceiling of two, and free to stop as   *)
(* it pleases.  Their free cores per job tie when it has been given one.   *)
(* A temperature of 1 is too hot for the first only, whosever it is.       *)
EXTENDS Federation

CONSTANTS a, b

MCRank == [h \in Hosts |-> IF h = a THEN 0 ELSE 1]
MCFree == [h \in Hosts |-> IF h = a THEN 3 ELSE 1]
MCMax == [h \in Hosts |-> IF h = a THEN 2 ELSE 1]
MCMaxTemp == [h \in Hosts |-> IF h = a THEN 1 ELSE 2]
MCMaxTotal == [h \in Hosts |-> IF h = a THEN 2 ELSE 0]
=============================================================================
