------------------------------ MODULE MCTTLCache ------------------------------
(* TTLCache for TLC. *)
EXTENDS TTLCache, TLC
=============================================================================
