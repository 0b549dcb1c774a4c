---------------------------- MODULE MCControlApi ----------------------------
(* TLC instances of ControlApi.tla: a pool of config.yml, a name that is   *)
(* free for the API, one field.                                            *)
EXTENDS ControlApi

CONSTANTS ci, lab
=============================================================================
