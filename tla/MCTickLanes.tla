----------------------------- MODULE MCTickLanes -----------------------------
(* Instances of TickLanes for TLC.                                         *)
EXTENDS TickLanes

CONSTANTS ci, lab, ops   \* pools
=============================================================================
