----------------------------- MODULE MCSettings ------------------------------
(* Scaled constants: at most 8 shards of 4 keys; caps below, between and past *)
(* what they hold; rates below and past one unit a tick.                      *)
EXTENDS Settings
=============================================================================
