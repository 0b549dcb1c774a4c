----------------------------- MODULE MCReapers -----------------------------
(* TLC instances of Reapers.tla.  A personal pool ticks its repositories   *)
(* `api` and `api-web`: the prefix of the first also matches the           *)
(* containers of the second, which only the second one's forge listing     *)
(* can show.                                                               *)
EXTENDS Reapers

CONSTANTS api, web

MCPrefix == [p \in Pools |-> Containers]
MCLists == [p \in Pools |-> IF p = web THEN Containers ELSE {}]
=============================================================================
