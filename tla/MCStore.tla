------------------------------- MODULE MCStore -------------------------------
(* Instances of Store for TLC: two pools scan one repository.              *)
EXTENDS Store, TLC

CONSTANTS ci, lab    \* pools
CONSTANTS c1, c2     \* runners
CONSTANT both        \* a job of the repository both scan

MCLists == ci :> {c1, c2} @@ lab :> {}
MCScans == ci :> {both} @@ lab :> {both}
MCMaxListings == ci :> 2 @@ lab :> 0
=============================================================================
